---- MODULE Spec2Model ----
(***************************************************************************)
(* The tool-mediated answer-generation loop of the course RAG chatbot:    *)
(* AIGenerator.generate_response (backend/ai_generator.py) driving the    *)
(* ToolManager, CourseSearchTool and CourseOutlineTool                    *)
(* (backend/search_tools.py), and RAGSystem.query around them             *)
(* (backend/rag_system.py, modelled after its design description and its  *)
(* tests).                                                                 *)
(*                                                                         *)
(* Python values are modelled as follows.  None is the string "None".     *)
(* A dict is a record; dict.get(k) tests k \in DOMAIN.  A text returned   *)
(* by the inference endpoint is a sequence of one-character strings, so   *)
(* that the regular expression of the citation check is computed on it.   *)
(* A formatted string is the sequence of the parts it is built from.      *)
(***************************************************************************)
EXTENDS Integers, Sequences, FiniteSets, TLC

\* config.MAX_SEQUENTIAL_TOOL_CALLS
MAX_SEQUENTIAL_TOOL_CALLS == 3

\* cap on the citation counter of one tool (keeps the state space finite)
MaxCitations == 3

None == "None"

Min(a, b) == IF a <= b THEN a ELSE b

(***************************************************************************)
(* The vector store (an external collaborator): what search() may return  *)
(* and what it knows about lesson links and course metadata.              *)
(***************************************************************************)
MetaLesson1 == [course_title |-> "Introduction to MCP", lesson_number |-> 1]
MetaLesson0 == [course_title |-> "Introduction to MCP", lesson_number |-> 0]
MetaNoLesson == [course_title |-> "Introduction to MCP"]

ResultsError == [documents |-> <<>>, metadata |-> <<>>, error |-> "Search error occurred"]
ResultsEmpty == [documents |-> <<>>, metadata |-> <<>>, error |-> None]
ResultsOne == [documents |-> <<"doc A">>, metadata |-> <<MetaLesson1>>, error |-> None]
ResultsTwo == [documents |-> <<"doc B", "doc C">>,
               metadata |-> <<MetaNoLesson, MetaLesson0>>, error |-> None]

SearchResults == {ResultsError, ResultsEmpty, ResultsOne, ResultsTwo}

\* SearchResults.is_empty()
is_empty(results) == Len(results.documents) = 0

\* VectorStore.get_lesson_link as the store of the tests answers it
get_lesson_link(course_title, lesson_num) ==
    IF lesson_num = 0 THEN "https://example.com/lesson0"
    ELSE IF lesson_num = 1 THEN "https://example.com/lesson1" ELSE None

\* VectorStore.get_course_metadata as the store of the tests answers it:
\* one course is known, any other title resolves to None
CourseMetadata == [title |-> "Introduction to MCP", lesson_count |-> 3]

\* an Optional[dict]: <<metadata>>, or <<>> for None
get_course_metadata(course_title) ==
    IF course_title = "MCP" THEN <<CourseMetadata>> ELSE <<>>

(***************************************************************************)
(* Tool instances.  Two CourseSearchTool objects and one CourseOutlineTool *)
(* object exist; the registry holds some of them.  Two more Tool objects   *)
(* have a malformed definition: n1 has no "name" key, e1 an empty name.    *)
(***************************************************************************)
SearchInsts == {"s1", "s2"}
OutlineInsts == {"o1"}
MalformedInsts == {"n1", "e1"}
Insts == SearchInsts \cup OutlineInsts \cup MalformedInsts

Kind(inst) ==
    IF inst \in SearchInsts THEN "search"
    ELSE IF inst \in OutlineInsts THEN "outline" ELSE "malformed"

\* hasattr(tool, attr) for the two attributes the registry probes
HasAttr(inst, attr) ==
    /\ Kind(inst) = "search"
    /\ attr \in {"all_sources", "reset_sources"}

\* get_tool_definition().get("name")
ToolName(inst) ==
    IF Kind(inst) = "search" THEN "search_course_content"
    ELSE IF Kind(inst) = "outline" THEN "get_course_outline"
    ELSE IF inst = "e1" THEN "" ELSE None

\* not tool_name
NoName(tool_name) == tool_name \in {None, ""}

\* keyword arguments the model may send with a tool_use block
InputQuery == [query |-> "MCP protocol"]
InputQueryCourse == [query |-> "MCP protocol", course_name |-> "MCP"]
InputQueryLesson0 == [query |-> "MCP protocol", lesson_number |-> 0]
InputCourseLesson2 == [query |-> "MCP protocol", course_name |-> "MCP",
                       lesson_number |-> 2]
InputTitle == [course_title |-> "MCP"]
InputTitleUnknown == [course_title |-> "Rust"]

ToolInputs == {InputQuery, InputQueryCourse, InputQueryLesson0, InputCourseLesson2,
               InputTitle, InputTitleUnknown}

\* the parameters of execute(); a call with other keywords, or without a
\* required one, raises TypeError
Params(inst) ==
    IF Kind(inst) = "search" THEN {"query", "course_name", "lesson_number"}
    ELSE {"course_title"}

Required(inst) == IF Kind(inst) = "search" THEN {"query"} ELSE {"course_title"}

AcceptsKwargs(inst, input) ==
    /\ Required(inst) \subseteq DOMAIN input
    /\ DOMAIN input \subseteq Params(inst)

(***************************************************************************)
(* CourseSearchTool.  self is [all_sources, source_counter]; every        *)
(* operation returns the new self together with the returned string.      *)
(***************************************************************************)
NewSearchTool == [all_sources |-> <<>>, source_counter |-> 0]

\* a title that takes lesson 0 for no lesson
SourceTitleTruthy(meta) ==
    LET course_title == IF "course_title" \in DOMAIN meta
                        THEN meta.course_title ELSE "unknown"
    IN IF "lesson_number" \in DOMAIN meta /\ meta.lesson_number # 0
       THEN <<course_title, " - Lesson ", meta.lesson_number>>
       ELSE <<course_title>>

SourceTitle(meta) ==
    LET course_title == IF "course_title" \in DOMAIN meta
                        THEN meta.course_title ELSE "unknown"
    IN IF "lesson_number" \in DOMAIN meta
       THEN <<course_title, " - Lesson ", meta.lesson_number>>
       ELSE <<course_title>>

LessonLink(meta) ==
    LET course_title == IF "course_title" \in DOMAIN meta
                        THEN meta.course_title ELSE "unknown"
    IN IF "lesson_number" \in DOMAIN meta
       THEN get_lesson_link(course_title, meta.lesson_number)
       ELSE None

\* the body of the for loop of _format_results, from pair i on
RECURSIVE FormatFrom(_, _, _)
FormatFrom(results, i, acc) ==
    IF i > Min(Len(results.documents), Len(results.metadata)) THEN acc
    ELSE LET doc == results.documents[i]
             meta == results.metadata[i]
             citation_num == acc.self.source_counter + 1
             source_title == SourceTitle(meta)
             item == [citation_num |-> citation_num,
                      title |-> source_title,
                      url |-> LessonLink(meta)]
             block == [citation_num |-> citation_num,
                       source_title |-> source_title,
                       doc |-> doc]
         IN FormatFrom(results, i + 1,
                [self |-> [all_sources |-> Append(acc.self.all_sources, item),
                           source_counter |-> citation_num],
                 formatted |-> Append(acc.formatted, block)])

\* a variant that numbers every call's results from 1
format_results_per_call(self, results) ==
    LET r == FormatFrom(results, 1,
                 [self |-> [all_sources |-> self.all_sources, source_counter |-> 0],
                  formatted |-> <<>>])
    IN [self |-> r.self, out |-> [kind |-> "results", blocks |-> r.formatted]]

\* CourseSearchTool._format_results: the blocks "[n] title\ndoc", joined
format_results(self, results) ==
    LET r == FormatFrom(results, 1, [self |-> self, formatted |-> <<>>])
    IN [self |-> r.self, out |-> [kind |-> "results", blocks |-> r.formatted]]

Truthy(input, key) ==
    /\ key \in DOMAIN input
    /\ input[key] # IF key = "lesson_number" THEN 0 ELSE ""

\* the filter suffix of the "No relevant content found" message
FilterInfo(input) ==
    (IF Truthy(input, "course_name")
     THEN <<" in course '", input.course_name, "'">> ELSE <<>>)
    \o (IF Truthy(input, "lesson_number")
        THEN <<" in lesson ", input.lesson_number>> ELSE <<>>)

\* an execute that looks at the documents before it looks at the error
search_execute_empty_first(self, input, results) ==
    IF is_empty(results)
    THEN [self |-> self,
          out |-> [kind |-> "empty",
                   text |-> <<"No relevant content found">> \o FilterInfo(input) \o <<".">>]]
    ELSE IF results.error # None /\ results.error # ""
    THEN [self |-> self, out |-> [kind |-> "error", text |-> results.error]]
    ELSE format_results(self, results)

\* an execute that counts a search without results as well
search_execute_counting_empty(self, input, results) ==
    IF results.error # None /\ results.error # ""
    THEN [self |-> self, out |-> [kind |-> "error", text |-> results.error]]
    ELSE IF is_empty(results)
    THEN [self |-> [self EXCEPT !.source_counter = @ + 1],
          out |-> [kind |-> "empty",
                   text |-> <<"No relevant content found">> \o FilterInfo(input) \o <<".">>]]
    ELSE format_results(self, results)

\* CourseSearchTool.execute, given what store.search returned
search_execute(self, input, results) ==
    IF results.error # None /\ results.error # ""
    THEN [self |-> self, out |-> [kind |-> "error", text |-> results.error]]
    ELSE IF is_empty(results)
    THEN [self |-> self,
          out |-> [kind |-> "empty",
                   text |-> <<"No relevant content found">> \o FilterInfo(input) \o <<".">>]]
    ELSE format_results(self, results)

\* a reset that forgets the counter
search_reset_sources_list_only(self) == [self EXCEPT !.all_sources = <<>>]

\* a reset that sets the counter from the list it is about to clear
search_reset_sources_stale_counter(self) ==
    [all_sources |-> <<>>, source_counter |-> Len(self.all_sources)]

\* CourseSearchTool.reset_sources
search_reset_sources(self) == [all_sources |-> <<>>, source_counter |-> 0]

\* CourseOutlineTool.execute
outline_execute(input) ==
    LET metadata == get_course_metadata(input.course_title)
    IN IF metadata = <<>>
       THEN [kind |-> "no_course",
             text |-> <<"No course found matching '", input.course_title, "'">>]
       ELSE [kind |-> "outline", text |-> <<"Course: ", metadata[1].title>>]

(***************************************************************************)
(* ToolManager.  tools is the dict self.tools in insertion order, a       *)
(* sequence of [name, inst]; objs maps each CourseSearchTool object to    *)
(* its self.                                                              *)
(***************************************************************************)
ToolNames(tools) == {tools[i].name : i \in 1..Len(tools)}

\* self.tools[tool_name]
Lookup(tools, tool_name) ==
    LET i == CHOOSE j \in 1..Len(tools) : tools[j].name = tool_name
    IN tools[i].inst

\* a registry that keeps a list of tools and appends every registration
register_tool_append(tools, inst) ==
    Append(tools, [name |-> ToolName(inst), inst |-> inst])

\* a registry that stores a tool under whatever name its definition gives
register_tool_unchecked(tools, inst) ==
    LET tool_name == ToolName(inst)
    IN IF tool_name \in ToolNames(tools)
       THEN [i \in 1..Len(tools) |->
                IF tools[i].name = tool_name
                THEN [name |-> tool_name, inst |-> inst] ELSE tools[i]]
       ELSE Append(tools, [name |-> tool_name, inst |-> inst])

\* a registry that keeps the tool it already holds under a name
register_tool_keep_first(tools, inst) ==
    LET tool_name == ToolName(inst)
    IN IF NoName(tool_name) \/ tool_name \in ToolNames(tools) THEN tools
       ELSE Append(tools, [name |-> tool_name, inst |-> inst])

\* ToolManager.register_tool, the registry it leaves: unchanged when it
\* raises ValueError; a dict assignment keeps the position of a key that is
\* already present
register_tool(tools, inst) ==
    LET tool_name == ToolName(inst)
    IN IF NoName(tool_name) THEN tools
       ELSE IF tool_name \in ToolNames(tools)
       THEN [i \in 1..Len(tools) |->
                IF tools[i].name = tool_name
                THEN [name |-> tool_name, inst |-> inst] ELSE tools[i]]
       ELSE Append(tools, [name |-> tool_name, inst |-> inst])

\* ToolManager.register_tool, what it returns or raises
register_tool_outcome(inst) ==
    IF NoName(ToolName(inst)) THEN [kind |-> "ValueError"] ELSE [kind |-> "none"]

\* a registry that lists the definitions latest first
get_tool_definitions_reversed(tools) ==
    [i \in 1..Len(tools) |-> ToolName(tools[Len(tools) + 1 - i].inst)]

\* ToolManager.get_tool_definitions
get_tool_definitions(tools) == [i \in 1..Len(tools) |-> ToolName(tools[i].inst)]

\* what store.search may answer to the call a dispatch makes, if it makes one
StoreAnswers(tools, tool_name, input) ==
    IF /\ tool_name \in ToolNames(tools)
       /\ Kind(Lookup(tools, tool_name)) = "search"
       /\ AcceptsKwargs(Lookup(tools, tool_name), input)
    THEN SearchResults ELSE {ResultsEmpty}

\* a dispatch that indexes the dict without looking the name up first
execute_tool_unguarded(tools, objs, tool_name, input, results) ==
    IF tool_name \notin ToolNames(tools)
    THEN [objs |-> objs, raised |-> TRUE, out |-> [kind |-> "KeyError"]]
    ELSE LET inst == Lookup(tools, tool_name)
         IN IF ~AcceptsKwargs(inst, input)
            THEN [objs |-> objs, raised |-> TRUE, out |-> [kind |-> "TypeError"]]
            ELSE IF Kind(inst) = "search"
            THEN LET r == search_execute(objs[inst], input, results)
                 IN [objs |-> [objs EXCEPT ![inst] = r.self],
                     raised |-> FALSE, out |-> r.out]
            ELSE [objs |-> objs, raised |-> FALSE, out |-> outline_execute(input)]

\* a dispatch whose outline lookups are numbered as evidence by the
\* registered search tools
execute_tool_outline_evidence(tools, objs, tool_name, input, results) ==
    IF tool_name \notin ToolNames(tools)
    THEN [objs |-> objs, raised |-> FALSE,
          out |-> [kind |-> "not_found",
                   text |-> <<"Tool '", tool_name, "' not found">>]]
    ELSE LET inst == Lookup(tools, tool_name)
         IN IF ~AcceptsKwargs(inst, input)
            THEN [objs |-> objs, raised |-> TRUE, out |-> [kind |-> "TypeError"]]
            ELSE IF Kind(inst) = "search"
            THEN LET r == search_execute(objs[inst], input, results)
                 IN [objs |-> [objs EXCEPT ![inst] = r.self],
                     raised |-> FALSE, out |-> r.out]
            ELSE [objs |-> [o \in DOMAIN objs |->
                              IF o \in {tools[i].inst : i \in 1..Len(tools)}
                              THEN [all_sources |->
                                        Append(objs[o].all_sources,
                                               [citation_num |-> objs[o].source_counter + 1,
                                                title |-> <<input.course_title>>,
                                                url |-> None]),
                                    source_counter |-> objs[o].source_counter + 1]
                              ELSE objs[o]],
                  raised |-> FALSE, out |-> outline_execute(input)]

\* ToolManager.execute_tool
execute_tool(tools, objs, tool_name, input, results) ==
    IF tool_name \notin ToolNames(tools)
    THEN [objs |-> objs, raised |-> FALSE,
          out |-> [kind |-> "not_found",
                   text |-> <<"Tool '", tool_name, "' not found">>]]
    ELSE LET inst == Lookup(tools, tool_name)
         IN IF ~AcceptsKwargs(inst, input)
            THEN [objs |-> objs, raised |-> TRUE, out |-> [kind |-> "TypeError"]]
            ELSE IF Kind(inst) = "search"
            THEN LET r == search_execute(objs[inst], input, results)
                 IN [objs |-> [objs EXCEPT ![inst] = r.self],
                     raised |-> FALSE, out |-> r.out]
            ELSE [objs |-> objs, raised |-> FALSE, out |-> outline_execute(input)]

\* ToolManager.get_all_sources
RECURSIVE SourcesFrom(_, _, _)
SourcesFrom(tools, objs, i) ==
    IF i > Len(tools) THEN <<>>
    ELSE (IF HasAttr(tools[i].inst, "all_sources")
          THEN objs[tools[i].inst].all_sources ELSE <<>>)
         \o SourcesFrom(tools, objs, i + 1)

\* a collection from every tool object there is, registered or not
get_all_sources_every_object(tools, objs) ==
    objs["s1"].all_sources \o objs["s2"].all_sources

get_all_sources(tools, objs) == SourcesFrom(tools, objs, 1)

\* ToolManager.reset_sources
reset_sources(tools, objs) ==
    [inst \in DOMAIN objs |->
        IF inst \in {tools[i].inst : i \in 1..Len(tools)}
        THEN IF HasAttr(inst, "reset_sources") THEN search_reset_sources(objs[inst])
             ELSE IF HasAttr(inst, "all_sources")
                  THEN [objs[inst] EXCEPT !.all_sources = <<>>]
                  ELSE objs[inst]
        ELSE objs[inst]]

\* the bracketed numbers of a returned string
IssuedBy(out) ==
    IF out.kind = "results"
    THEN [i \in 1..Len(out.blocks) |-> out.blocks[i].citation_num]
    ELSE <<>>

\* the ghost record of one dispatch: which tool formatted how many pairs
Account(ts, tool_name, input, results, out, iss, ret) ==
    IF tool_name \in ToolNames(ts) /\ out.kind = "results"
    THEN LET inst == Lookup(ts, tool_name)
         IN [issued |-> [iss EXCEPT ![inst] = @ \o IssuedBy(out)],
             returned |-> [ret EXCEPT ![inst] =
                              @ + Min(Len(results.documents), Len(results.metadata))]]
    ELSE [issued |-> iss, returned |-> ret]

WithinCap(ts, os, tool_name, results) ==
    IF tool_name \notin ToolNames(ts) THEN TRUE
    ELSE IF Kind(Lookup(ts, tool_name)) # "search" THEN TRUE
    ELSE os[Lookup(ts, tool_name)].source_counter + Len(results.documents)
            <= MaxCitations

(***************************************************************************)
(* AIGenerator.  The inference endpoint is an external collaborator: any  *)
(* call may return any of Responses, whatever was offered, or raise.      *)
(***************************************************************************)
SYSTEM_PROMPT == "You are an AI assistant specialized in course materials"

TextBlock(text) == [type |-> "text", text |-> text]

ToolUseBlock(id, name, input) ==
    [type |-> "tool_use", id |-> id, name |-> name, input |-> input]

TxtPlain == <<"o", "k">>
TxtCited == <<"o", "k", "[", "1", "]">>
TxtCited12 == <<"o", "[", "1", "2", "]">>
TxtBrackets == <<"[", "]", "1">>

Texts == {TxtPlain, TxtCited, TxtCited12, TxtBrackets}

RespText(text) == [stop_reason |-> "end_turn", content |-> <<TextBlock(text)>>]

RespNoText == [stop_reason |-> "end_turn", content |-> <<>>]

RespSearch ==
    [stop_reason |-> "tool_use",
     content |-> <<ToolUseBlock("tool_1", "search_course_content", InputQuery)>>]

RespTwoTools ==
    [stop_reason |-> "tool_use",
     content |-> <<TextBlock(TxtPlain),
                   ToolUseBlock("tool_2", "get_course_outline", InputTitle),
                   ToolUseBlock("tool_3", "unknown_tool", InputQueryCourse)>>]

RespBadArgs ==
    [stop_reason |-> "tool_use",
     content |-> <<ToolUseBlock("tool_4", "search_course_content", InputTitle)>>]

\* stop_reason tool_use with no tool_use block in the content
RespNoBlocks == [stop_reason |-> "tool_use", content |-> <<TextBlock(TxtPlain)>>]

ToolUseResponses == {RespSearch, RespTwoTools, RespBadArgs, RespNoBlocks}

Responses == {RespText(t) : t \in Texts} \cup {RespNoText} \cup ToolUseResponses

Digits == {"0", "1", "2", "3", "4", "5", "6", "7", "8", "9"}

\* a check that takes any opening bracket for a citation
has_citations_any_bracket(text) == \E i \in 1..Len(text) : text[i] = "["

\* a check that knows markers of one digit only
has_citations_one_digit(text) ==
    \E i \in 1..Len(text) :
        /\ i + 2 <= Len(text)
        /\ text[i] = "["
        /\ text[i + 1] \in Digits
        /\ text[i + 2] = "]"

\* re.search(r'\[\d+\]', text) is not None
has_citations(text) ==
    \E i \in 1..Len(text), j \in 1..Len(text) :
        /\ i + 1 < j
        /\ text[i] = "["
        /\ text[j] = "]"
        /\ \A k \in (i + 1)..(j - 1) : text[k] \in Digits

\* AIGenerator._extract_text_response: the text of the first block that has one
RECURSIVE ExtractFrom(_, _)
ExtractFrom(content, i) ==
    IF i > Len(content) THEN <<>>
    ELSE IF content[i].type = "text" THEN content[i].text
    ELSE ExtractFrom(content, i + 1)

extract_text_response(resp) == ExtractFrom(resp.content, 1)

\* a system content that gets a history block whenever a history is passed
build_system_content_any_history(conversation_history) ==
    IF conversation_history # <<>>
    THEN <<SYSTEM_PROMPT, "\n\nPrevious conversation:\n", conversation_history[1]>>
    ELSE <<SYSTEM_PROMPT>>

\* AIGenerator._build_system_content; conversation_history is <<>> for None
build_system_content(conversation_history) ==
    IF conversation_history # <<>> /\ conversation_history[1] # ""
    THEN <<SYSTEM_PROMPT, "\n\nPrevious conversation:\n", conversation_history[1]>>
    ELSE <<SYSTEM_PROMPT>>

\* a loop that offers tools whenever a tool manager is there
can_use_tools_without_tools(tools_arg, tool_manager, count) ==
    /\ tool_manager # <<>>
    /\ count < MAX_SEQUENTIAL_TOOL_CALLS

\* a loop that offers tools one round longer
can_use_tools_off_by_one(tools_arg, tool_manager, count) ==
    /\ tools_arg # <<>>
    /\ tool_manager # <<>>
    /\ count <= MAX_SEQUENTIAL_TOOL_CALLS

\* can_use_tools of generate_response; an argument is <<>> for None
can_use_tools(tools_arg, tool_manager, count) ==
    /\ tools_arg # <<>>
    /\ tool_manager # <<>>
    /\ count < MAX_SEQUENTIAL_TOOL_CALLS

\* a control flow that returns any plain text at once
step_without_citation_check(site, count, resp) ==
    IF site # "loop" \/ resp.stop_reason # "tool_use" THEN "return"
    ELSE IF count >= MAX_SEQUENTIAL_TOOL_CALLS THEN "force" ELSE "tools"

\* a control flow that runs the response of a forced call through the checks
\* of the loop again
step_recheck(site, count, resp) ==
    IF resp.stop_reason # "tool_use"
    THEN IF count > 0 /\ ~has_citations(extract_text_response(resp))
         THEN "revise" ELSE "return"
    ELSE IF count >= MAX_SEQUENTIAL_TOOL_CALLS THEN "force" ELSE "tools"

\* a control flow that checks every plain text for citations, tool round or not
step_always_check(site, count, resp) ==
    IF site # "loop" THEN "return"
    ELSE IF resp.stop_reason # "tool_use"
    THEN IF ~has_citations(extract_text_response(resp)) THEN "revise" ELSE "return"
    ELSE IF count >= MAX_SEQUENTIAL_TOOL_CALLS THEN "force" ELSE "tools"

\* a control flow that runs every round the endpoint asks for
step_unbounded(site, count, resp) ==
    IF site # "loop" THEN "return"
    ELSE IF resp.stop_reason # "tool_use"
    THEN IF count > 0 /\ ~has_citations(extract_text_response(resp))
         THEN "revise" ELSE "return"
    ELSE "tools"

\* what generate_response does next with the response of a call made at
\* site, with the tool-call count at count: lines 118-135, 204 and 285
step(site, count, resp) ==
    IF site # "loop" THEN "return"
    ELSE IF resp.stop_reason # "tool_use"
    THEN IF count > 0 /\ ~has_citations(extract_text_response(resp))
         THEN "revise" ELSE "return"
    ELSE IF count >= MAX_SEQUENTIAL_TOOL_CALLS THEN "force" ELSE "tools"

\* a count of the tool_use blocks dispatched
next_tool_call_count_per_block(count, resp) ==
    count + Cardinality({i \in 1..Len(resp.content) : resp.content[i].type = "tool_use"})

\* tool_call_count += 1 after the round that resp asked for, line 135
next_tool_call_count(count, resp) == count + 1

FinalInstruction ==
    "Based on the search results above, please provide your final response. Remember to cite your sources using the bracket notation [1], [2], etc."

CitationReminder ==
    "Please revise your response to include citations using bracket notation [1], [2], etc. to reference the search results. Each fact from the course materials should cite its source."

\* a helper that extends the list object it was given
extend_in_place(ls, id, content) ==
    [lists |-> [ls EXCEPT ![id] = content], id |-> id]

\* messages.copy() followed by the appends that make it content: a new list
\* object is created and the object that was given stays as it is
copy_on_extend(ls, id, content) ==
    [lists |-> Append(ls, content), id |-> Len(ls) + 1]

\* a forced call that sends the sequence as it stands
force_final_messages_bare(msgs) == msgs

\* the messages _force_final_response sends
force_final_messages(msgs) ==
    Append(msgs, [role |-> "user", content |-> FinalInstruction])

\* a revision request that leaves the uncited text out
revision_messages_reminder_only(msgs, text) ==
    Append(msgs, [role |-> "user", content |-> CitationReminder])

\* the messages _ensure_citations_in_response sends when the text is uncited
revision_messages(msgs, text) ==
    msgs \o <<[role |-> "assistant", content |-> text],
              [role |-> "user", content |-> CitationReminder]>>

\* a for loop that goes on to the next endpoint call as soon as one result
\* is in
RECURSIVE RunToolsFirstResult(_, _, _, _, _, _)
RunToolsFirstResult(ts, tool_manager, content, answers, i, w) ==
    IF i > Len(content) \/ w.raised # None \/ w.tool_results # <<>> THEN w
    ELSE IF content[i].type # "tool_use"
    THEN RunToolsFirstResult(ts, tool_manager, content, answers, i + 1, w)
    ELSE IF tool_manager = <<>>
    THEN [w EXCEPT !.raised = "AttributeError"]
    ELSE LET b == content[i]
             r == execute_tool(ts, w.objs, b.name, b.input, answers[i])
             a == Account(ts, b.name, b.input, answers[i], r.out, w.issued, w.returned)
             ev == [ev |-> "dispatch", id |-> b.id, name |-> b.name]
         IN RunToolsFirstResult(ts, tool_manager, content, answers, i + 1,
                [objs |-> r.objs,
                 issued |-> a.issued,
                 returned |-> a.returned,
                 raised |-> IF r.raised THEN "TypeError" ELSE None,
                 capped |-> w.capped \/ ~WithinCap(ts, w.objs, b.name, answers[i]),
                 events |-> Append(w.events, ev),
                 tool_results |->
                     IF r.raised THEN w.tool_results
                     ELSE Append(w.tool_results,
                                 [type |-> "tool_result", tool_use_id |-> b.id,
                                  content |-> r.out])])

\* a round that clears the registry's evidence before its first dispatch
RECURSIVE RunToolsFromCleanTools(_, _, _, _, _, _)
RunToolsFromCleanTools(ts, tool_manager, content, answers, i, w0) ==
    LET w == IF i = 1 THEN [w0 EXCEPT !.objs = reset_sources(ts, w0.objs)] ELSE w0
    IN IF i > Len(content) \/ w.raised # None THEN w
       ELSE IF content[i].type # "tool_use"
       THEN RunToolsFromCleanTools(ts, tool_manager, content, answers, i + 1, w)
       ELSE IF tool_manager = <<>>
       THEN [w EXCEPT !.raised = "AttributeError"]
       ELSE LET b == content[i]
                r == execute_tool(ts, w.objs, b.name, b.input, answers[i])
                a == Account(ts, b.name, b.input, answers[i], r.out, w.issued, w.returned)
                ev == [ev |-> "dispatch", id |-> b.id, name |-> b.name]
            IN RunToolsFromCleanTools(ts, tool_manager, content, answers, i + 1,
                   [objs |-> r.objs,
                    issued |-> a.issued,
                    returned |-> a.returned,
                    raised |-> IF r.raised THEN "TypeError" ELSE None,
                    capped |-> w.capped \/ ~WithinCap(ts, w.objs, b.name, answers[i]),
                    events |-> Append(w.events, ev),
                    tool_results |->
                        IF r.raised THEN w.tool_results
                        ELSE Append(w.tool_results,
                                    [type |-> "tool_result", tool_use_id |-> b.id,
                                     content |-> r.out])])

\* the for loop of _execute_tools_and_update_messages from block i on;
\* w carries the tool objects, the results collected so far and the ghosts
RECURSIVE RunTools(_, _, _, _, _, _)
RunTools(ts, tool_manager, content, answers, i, w) ==
    IF i > Len(content) \/ w.raised # None THEN w
    ELSE IF content[i].type # "tool_use"
    THEN RunTools(ts, tool_manager, content, answers, i + 1, w)
    ELSE IF tool_manager = <<>>
    THEN [w EXCEPT !.raised = "AttributeError"]
    ELSE LET b == content[i]
             r == execute_tool(ts, w.objs, b.name, b.input, answers[i])
             a == Account(ts, b.name, b.input, answers[i], r.out, w.issued, w.returned)
             ev == [ev |-> "dispatch", id |-> b.id, name |-> b.name]
         IN RunTools(ts, tool_manager, content, answers, i + 1,
                [objs |-> r.objs,
                 issued |-> a.issued,
                 returned |-> a.returned,
                 raised |-> IF r.raised THEN "TypeError" ELSE None,
                 capped |-> w.capped \/ ~WithinCap(ts, w.objs, b.name, answers[i]),
                 events |-> Append(w.events, ev),
                 tool_results |->
                     IF r.raised THEN w.tool_results
                     ELSE Append(w.tool_results,
                                 [type |-> "tool_result", tool_use_id |-> b.id,
                                  content |-> r.out])])

\* a helper that appends one user message per tool result
updated_messages_one_per_result(msgs, resp, tool_results) ==
    Append(msgs, [role |-> "assistant", content |-> resp.content])
    \o [k \in 1..Len(tool_results) |->
           [role |-> "user", content |-> <<tool_results[k]>>]]

\* AIGenerator._execute_tools_and_update_messages: the returned list
updated_messages(msgs, resp, tool_results) ==
    LET with_request == Append(msgs, [role |-> "assistant", content |-> resp.content])
    IN IF tool_results # <<>>
       THEN Append(with_request, [role |-> "user", content |-> tool_results])
       ELSE with_request

(***************************************************************************)
(* RAGSystem (backend/rag_system.py): the citation filtering that follows  *)
(* the generation loop.  A text is scanned into tokens, a token being one  *)
(* character or one marker [n].                                            *)
(***************************************************************************)
DigitChars == <<"0", "1", "2", "3", "4", "5", "6", "7", "8", "9">>

DigitValue(c) == (CHOOSE k \in 1..Len(DigitChars) : DigitChars[k] = c) - 1

\* the first index from j on that holds no digit
RECURSIVE DigitsEnd(_, _)
DigitsEnd(text, j) ==
    IF j > Len(text) THEN j
    ELSE IF text[j] \notin Digits THEN j
    ELSE DigitsEnd(text, j + 1)

\* the index of the "]" of the marker that opens at i, 0 if none opens there
MarkerEnd(text, i) ==
    IF text[i] # "[" THEN 0
    ELSE LET j == DigitsEnd(text, i + 1)
         IN IF j > i + 1 /\ j <= Len(text)
            THEN IF text[j] = "]" THEN j ELSE 0
            ELSE 0

\* int() of the digits text[i..j]
RECURSIVE NumberFrom(_, _, _, _)
NumberFrom(text, i, j, acc) ==
    IF i > j THEN acc
    ELSE NumberFrom(text, i + 1, j, acc * 10 + DigitValue(text[i]))

\* str() of a non-negative integer
RECURSIVE NumberDigits(_)
NumberDigits(n) ==
    IF n < 10 THEN <<DigitChars[n + 1]>>
    ELSE NumberDigits(n \div 10) \o <<DigitChars[(n % 10) + 1]>>

\* the matches of the marker pattern, left to right, and the text between
RECURSIVE Tokens(_, _)
Tokens(text, i) ==
    IF i > Len(text) THEN <<>>
    ELSE LET j == MarkerEnd(text, i)
         IN IF j = 0
            THEN <<[marker |-> FALSE, num |-> 0, ch |-> text[i]]>>
                 \o Tokens(text, i + 1)
            ELSE <<[marker |-> TRUE, num |-> NumberFrom(text, i + 1, j - 1, 0),
                    ch |-> ""]>>
                 \o Tokens(text, j + 1)

\* step 1: the numbers of the markers in order of first appearance
RECURSIVE CitedNumbers(_, _, _)
CitedNumbers(toks, i, acc) ==
    IF i > Len(toks) THEN acc
    ELSE IF toks[i].marker /\ \A k \in 1..Len(acc) : acc[k] # toks[i].num
    THEN CitedNumbers(toks, i + 1, Append(acc, toks[i].num))
    ELSE CitedNumbers(toks, i + 1, acc)

IndexOf(seq, x) == CHOOSE i \in 1..Len(seq) : seq[i] = x

\* the text of a token sequence, every marker number n rewritten to new[n]
\* where new has one
RECURSIVE Rewritten(_, _, _)
Rewritten(toks, i, new) ==
    IF i > Len(toks) THEN <<>>
    ELSE (IF toks[i].marker
          THEN <<"[">>
               \o NumberDigits(IF toks[i].num \in DOMAIN new
                               THEN new[toks[i].num] ELSE toks[i].num)
               \o <<"]">>
          ELSE <<toks[i].ch>>)
         \o Rewritten(toks, i + 1, new)

\* the numbers of an evidence list
NumbersOf(sources) == {sources[i].citation_num : i \in 1..Len(sources)}

SourceNumbered(sources, n) ==
    sources[CHOOSE i \in 1..Len(sources) : sources[i].citation_num = n]

\* a filter that numbers the kept items in the order of the evidence list
extract_cited_sources_evidence_order(text, all_sources) ==
    LET toks == Tokens(text, 1)
        nums == CitedNumbers(toks, 1, <<>>)
        in_text(s) == \E k \in 1..Len(nums) : nums[k] = s.citation_num
        kept == SelectSeq(all_sources, in_text)
        new == [n \in NumbersOf(kept) |->
                   CHOOSE k \in 1..Len(kept) : kept[k].citation_num = n]
    IN [response |-> Rewritten(toks, 1, new),
        sources |-> [k \in 1..Len(kept) |-> [kept[k] EXCEPT !.citation_num = k]]]

\* a filter that hands back the whole evidence list when the text cites nothing
extract_cited_sources_all_when_uncited(text, all_sources) ==
    LET toks == Tokens(text, 1)
        nums == CitedNumbers(toks, 1, <<>>)
        cited(n) == n \in NumbersOf(all_sources)
        kept == SelectSeq(nums, cited)
        new == [n \in {kept[k] : k \in 1..Len(kept)} |-> IndexOf(kept, n)]
    IN IF nums = <<>> THEN [response |-> text, sources |-> all_sources]
       ELSE [response |-> Rewritten(toks, 1, new),
             sources |-> [k \in 1..Len(kept) |->
                             [SourceNumbered(all_sources, kept[k])
                                 EXCEPT !.citation_num = k]]]

\* RAGSystem._extract_cited_sources: steps 1 to 3 of the post-loop filtering
extract_cited_sources(text, all_sources) ==
    LET toks == Tokens(text, 1)
        nums == CitedNumbers(toks, 1, <<>>)
        cited(n) == n \in NumbersOf(all_sources)
        kept == SelectSeq(nums, cited)
        new == [n \in {kept[k] : k \in 1..Len(kept)} |-> IndexOf(kept, n)]
    IN [response |-> Rewritten(toks, 1, new),
        sources |-> [k \in 1..Len(kept) |->
                        [SourceNumbered(all_sources, kept[k])
                            EXCEPT !.citation_num = k]]]

(***************************************************************************)
(* State.                                                                  *)
(***************************************************************************)
VARIABLES
    tools,            \* ToolManager.tools
    objs,             \* the CourseSearchTool objects: all_sources, source_counter
    tool_out,         \* what the caller's last registry call returned or raised
    called,           \* the arguments of that call: the tool registered, or the
                      \* name and input dispatched with what store.search answered
    last_op,          \* the caller's last registry operation
    reset_streak,     \* how many reset_sources calls in a row ended here
    pre_reset,        \* evidence items the registry held before that streak
    issued,           \* per tool: citation numbers emitted since its last reset
    returned,         \* per tool: (document, metadata) pairs formatted since then
    pc,               \* where generate_response stands
    args,             \* its arguments: query, conversation_history, tools, tool_manager
    system_content,
    messages,         \* the content of the list object the local names
    lists,            \* the list objects created so far, by identity
    cur,              \* which of them the local messages names
    tool_call_count,
    response,         \* the response the citation check found uncited
    result,           \* what generate_response returned or raised
    trace,            \* the endpoint calls and tool dispatches made, in order
    queries,          \* RAGSystem.query: where each logical query stands
    made,             \* which query created each evidence item the search tool holds
    scrape_pc,        \* where DeepLearningAIScraper.scrape_course stands
    course_url,       \* its argument
    metadata,         \* what _extract_course_metadata gave it
    lessons,          \* what _get_lesson_list gave it
    lesson_i,         \* the index i of its for loop
    scraped_lessons,
    scrape_result     \* the pair it returned

regvars == <<tools, objs, tool_out, called, last_op, reset_streak, pre_reset,
             issued, returned>>

loopvars == <<pc, args, system_content, messages, lists, cur, tool_call_count,
              response, result, trace>>

queryvars == <<queries, made>>

scrapervars == <<scrape_pc, course_url, metadata, lessons, lesson_i,
                 scraped_lessons, scrape_result>>

vars == <<regvars, loopvars, queryvars, scrapervars>>

Registered(ts) == {ts[i].inst : i \in 1..Len(ts)}

NoOut == [kind |-> "none"]

NoCall == [name |-> None]

InitRegistry ==
    /\ objs = [inst \in SearchInsts |-> NewSearchTool]
    /\ tool_out = NoOut
    /\ called = NoCall
    /\ last_op = "init"
    /\ reset_streak = 0
    /\ pre_reset = 0
    /\ issued = [inst \in SearchInsts |-> <<>>]
    /\ returned = [inst \in SearchInsts |-> 0]

NoResponse == [stop_reason |-> "none", content |-> <<>>]

InitLoop ==
    /\ pc = "idle"
    /\ args = [query |-> "", conversation_history |-> <<>>, tools |-> <<>>,
               tool_manager |-> <<>>]
    /\ system_content = <<>>
    /\ messages = <<>>
    /\ lists = <<>>
    /\ cur = 0
    /\ tool_call_count = 0
    /\ response = NoResponse
    /\ result = [kind |-> "none"]
    /\ trace = <<>>

\* the logical queries that may run against the one RAGSystem
Queries == {"q1", "q2"}

NewQuery ==
    [pc |-> "idle",
     alone |-> TRUE,                  \* no other query ran while it did
     base |-> [sources |-> 0, counter |-> 0],   \* what it found at its start
     got |-> <<>>,                    \* citation numbers its searches were given
     answer |-> <<>>,                 \* the text its generation returned
     read |-> <<>>,                   \* the evidence it collected
     owners |-> <<>>,                 \* which query created each item of it
     ops |-> <<>>,                    \* its evidence read-outs and clears, in order
     result |-> [response |-> <<>>, sources |-> <<>>]]

InitQueries ==
    /\ queries = [q \in Queries |-> NewQuery]
    /\ made = <<>>

NoUrl == [form |-> "empty", scheme |-> "", netloc |-> "", path |-> <<>>]

InitScraper ==
    /\ scrape_pc = "idle"
    /\ course_url = NoUrl
    /\ metadata = [title |-> <<>>, instructor |-> <<>>, course_link |-> NoUrl]
    /\ lessons = <<>>
    /\ lesson_i = 0
    /\ scraped_lessons = <<>>
    /\ scrape_result = [kind |-> "none"]

\* manager.register_tool(tool)
RegisterTool(inst) ==
    /\ UNCHANGED <<loopvars, queryvars, scrapervars>>
    /\ tools' = register_tool(tools, inst)
    /\ tool_out' = register_tool_outcome(inst)
    /\ called' = [inst |-> inst]
    /\ last_op' = "register_tool"
    /\ reset_streak' = 0
    /\ pre_reset' = 0
    /\ UNCHANGED <<objs, issued, returned>>

\* the registry's part of manager.execute_tool(tool_name, **input)
DoExecuteTool(tool_name, input) ==
    \E results \in StoreAnswers(tools, tool_name, input) :
        LET r == execute_tool(tools, objs, tool_name, input, results)
            a == Account(tools, tool_name, input, results, r.out, issued, returned)
        IN /\ WithinCap(tools, objs, tool_name, results)
           /\ objs' = r.objs
           /\ tool_out' = r.out
           /\ called' = [name |-> tool_name, input |-> input, results |-> results]
           /\ issued' = a.issued
           /\ returned' = a.returned
           /\ last_op' = "execute_tool"
           /\ reset_streak' = 0
           /\ pre_reset' = 0
           /\ UNCHANGED tools

\* manager.execute_tool(tool_name, **input), called directly
ExecuteTool(tool_name, input) ==
    /\ DoExecuteTool(tool_name, input)
    /\ UNCHANGED <<loopvars, queryvars, scrapervars>>

\* the registry's part of manager.get_all_sources()
DoGetAllSources ==
    /\ last_op' = "get_all_sources"
    /\ reset_streak' = 0
    /\ pre_reset' = 0
    /\ tool_out' = NoOut
    /\ called' = NoCall
    /\ UNCHANGED <<tools, objs, issued, returned>>

\* manager.get_all_sources(), called directly
GetAllSources ==
    /\ DoGetAllSources
    /\ UNCHANGED <<loopvars, queryvars, scrapervars>>

\* the registry's part of manager.reset_sources()
DoResetSources ==
    /\ objs' = reset_sources(tools, objs)
    /\ issued' = [inst \in SearchInsts |->
                     IF inst \in Registered(tools) THEN <<>> ELSE issued[inst]]
    /\ returned' = [inst \in SearchInsts |->
                       IF inst \in Registered(tools) THEN 0 ELSE returned[inst]]
    /\ last_op' = "reset_sources"
    /\ reset_streak' = Min(reset_streak + 1, 2)
    /\ pre_reset' = IF reset_streak = 0
                    THEN Len(get_all_sources(tools, objs)) ELSE pre_reset
    /\ tool_out' = NoOut
    /\ called' = NoCall
    /\ UNCHANGED tools

\* manager.reset_sources(), called directly
ResetSources ==
    /\ DoResetSources
    /\ UNCHANGED <<loopvars, queryvars, scrapervars>>

ToolNamesCalled == {"search_course_content", "get_course_outline", "unknown_tool"}

InitTools ==
    /\ tools = <<>>
    /\ InitRegistry
    /\ InitLoop
    /\ InitQueries
    /\ InitScraper

NextTools ==
    \/ \E inst \in Insts : RegisterTool(inst)
    \/ \E tool_name \in ToolNamesCalled, input \in ToolInputs :
           ExecuteTool(tool_name, input)
    \/ GetAllSources
    \/ ResetSources

SpecTools == InitTools /\ [][NextTools]_vars

(***************************************************************************)
(* generate_response, one action per endpoint call: the call, and what    *)
(* the code does with the response up to the next call or the return.     *)
(***************************************************************************)
RespRaised == [stop_reason |-> "raised", content |-> <<>>]

\* sent is the list object passed as messages, with the objects as they
\* are when the call is made
CallEvent(site, offered, sent, resp) ==
    [ev |-> "call", site |-> site, offered |-> offered, count |-> tool_call_count,
     messages |-> sent.lists[sent.id], list |-> sent.id,
     system |-> system_content, response |-> resp]

Return(text) ==
    /\ pc' = "done"
    /\ result' = [kind |-> "text", text |-> text]

\* a recovery that goes round the loop again after a failure
RaiseRetry(error) ==
    /\ pc' = "loop"
    /\ result' = result

Raise(error) ==
    /\ pc' = "failed"
    /\ result' = [kind |-> "raised", error |-> error]

\* what store.search may answer to each dispatch of one response
AnswerSets(ts, content) ==
    {f \in [1..Len(content) -> SearchResults] :
        \A i \in 1..Len(content) :
            f[i] \in (IF content[i].type = "tool_use"
                      THEN StoreAnswers(ts, content[i].name, content[i].input)
                      ELSE {ResultsEmpty})}

Histories == {<<>>, <<"">>, <<"User: Hi">>}

\* generate_response(query, conversation_history, tools, tool_manager), lines 86-93
Start ==
    /\ pc = "idle"
    /\ \E h \in Histories,
          t \in {<<>>, <<get_tool_definitions(tools)>>},
          m \in {<<>>, <<"manager">>} :
          /\ args' = [query |-> "What is MCP?", conversation_history |-> h,
                      tools |-> t, tool_manager |-> m]
          /\ system_content' = build_system_content(h)
    /\ messages' = <<[role |-> "user", content |-> "What is MCP?"]>>
    /\ lists' = <<messages'>>
    /\ cur' = 1
    /\ tool_call_count' = 0
    /\ pc' = "loop"
    /\ UNCHANGED <<regvars, response, result, trace, queryvars, scrapervars>>

\* what the code does with the response of an endpoint call made at site
\* ("loop": line 116, "force": line 279, "revise": line 198) from here on
Handle(site, call, resp, sent) ==
    LET text == extract_text_response(resp)
        todo == step(site, tool_call_count, resp)
    IN IF todo = "return"
       THEN /\ trace' = Append(trace, call)
            /\ Return(text)
            /\ lists' = sent.lists
            /\ messages' = sent.lists[cur]
            /\ UNCHANGED <<regvars, args, system_content, cur, tool_call_count,
                           response>>
       ELSE IF todo \in {"revise", "force"}
       THEN /\ trace' = Append(trace, call)
            /\ pc' = todo
            /\ response' = resp
            /\ lists' = sent.lists
            /\ messages' = sent.lists[cur]
            /\ UNCHANGED <<regvars, args, system_content, cur, tool_call_count,
                           result>>
       ELSE \E answers \in AnswerSets(tools, resp.content) :
              LET w == RunTools(tools, args.tool_manager, resp.content, answers, 1,
                                [objs |-> objs, issued |-> issued,
                                 returned |-> returned, raised |-> None,
                                 capped |-> FALSE, events |-> <<>>,
                                 tool_results |-> <<>>])
                  given == sent.lists[cur]
                  request == [role |-> "assistant", content |-> resp.content]
              IN /\ ~w.capped
                 /\ trace' = Append(trace, call) \o <<[ev |-> "round"]>> \o w.events
                 /\ objs' = w.objs
                 /\ issued' = w.issued
                 /\ returned' = w.returned
                 /\ IF w.raised # None
                    THEN LET h == copy_on_extend(sent.lists, cur, Append(given, request))
                         IN /\ Raise(w.raised)
                            /\ lists' = h.lists
                            /\ messages' = h.lists[cur]
                            /\ UNCHANGED <<cur, tool_call_count>>
                    ELSE LET h == copy_on_extend(sent.lists, cur,
                                      updated_messages(given, resp, w.tool_results))
                         IN /\ lists' = h.lists
                            /\ cur' = h.id
                            /\ messages' = h.lists[h.id]
                            /\ tool_call_count' =
                                  next_tool_call_count(tool_call_count, resp)
                            /\ pc' = "loop"
                            /\ UNCHANGED result
                 /\ UNCHANGED <<tools, tool_out, called, last_op, reset_streak,
                                pre_reset, args, system_content, response>>

\* self.client.messages.create(...): the endpoint raises, or answers
Endpoint(site, offered, sent) ==
    \/ /\ trace' = Append(trace, CallEvent(site, offered, sent, RespRaised))
       /\ Raise("APIError")
       /\ lists' = sent.lists
       /\ messages' = sent.lists[cur]
       /\ UNCHANGED <<regvars, args, system_content, cur, tool_call_count,
                      response>>
    \/ \E resp \in Responses :
          Handle(site, CallEvent(site, offered, sent, resp), resp, sent)

\* one iteration of the while loop, lines 96-135: api_params["messages"] is
\* the list object messages itself
LoopCall ==
    /\ pc = "loop"
    /\ UNCHANGED <<queryvars, scrapervars>>
    /\ Endpoint("loop",
                can_use_tools(args.tools, args.tool_manager, tool_call_count),
                [lists |-> lists, id |-> cur])

\* _force_final_response, lines 271-285
ForceCall ==
    /\ pc = "force"
    /\ UNCHANGED <<queryvars, scrapervars>>
    /\ Endpoint("force", FALSE,
                copy_on_extend(lists, cur, force_final_messages(lists[cur])))

\* the regeneration request of _ensure_citations_in_response, lines 181-204
ReviseCall ==
    /\ pc = "revise"
    /\ UNCHANGED <<queryvars, scrapervars>>
    /\ Endpoint("revise", FALSE,
                copy_on_extend(lists, cur,
                    revision_messages(lists[cur], extract_text_response(response))))

\* the application's registry: one search tool and the outline tool
Init ==
    /\ tools = register_tool(register_tool(<<>>, "s1"), "o1")
    /\ InitRegistry
    /\ InitLoop
    /\ InitQueries
    /\ InitScraper

Next ==
    \/ Start
    \/ LoopCall
    \/ ForceCall
    \/ ReviseCall

Spec == Init /\ [][Next]_vars

\* generate_response under the assumption that every endpoint call it makes
\* comes back, with a response or with an exception
SpecLive ==
    /\ Init
    /\ [][Next]_vars
    /\ WF_vars(LoopCall)
    /\ WF_vars(ForceCall)
    /\ WF_vars(ReviseCall)

(***************************************************************************)
(* RAGSystem.query, one action per step that touches the shared registry: *)
(* generate_response (its tool dispatches, then its return or its raise), *)
(* get_all_sources with _extract_cited_sources, and reset_sources.  Two    *)
(* logical queries may run one after the other or interleaved.             *)
(***************************************************************************)
Txt313 == <<"[", "3", "]", "a", "[", "1", "]", "[", "3", "]">>
TxtOrphan == <<"[", "2", "]", "[", "1", "2", "]">>

\* the texts generate_response may return
QueryTexts == {TxtBrackets, Txt313, TxtOrphan}

Active(q) == queries[q].pc \notin {"idle", "done", "failed"}

\* the registry's content-search tool
TheSearchTool == Lookup(tools, "search_course_content")

Repeat(x, n) == [i \in 1..n |-> x]

\* query(): the call of generate_response begins; the queries are named in
\* the order in which they start
QStart(q) ==
    /\ queries[q].pc = "idle"
    /\ q = "q2" => queries["q1"].pc # "idle"
    /\ queries' = [p \in Queries |->
          IF p = q
          THEN [queries[q] EXCEPT
                  !.pc = "generating",
                  !.alone = \A o \in Queries \ {q} : ~Active(o),
                  !.base = [sources |-> Len(get_all_sources(tools, objs)),
                            counter |-> objs[TheSearchTool].source_counter]]
          ELSE IF Active(p) THEN [queries[p] EXCEPT !.alone = FALSE]
          ELSE queries[p]]
    /\ UNCHANGED <<regvars, loopvars, made, scrapervars>>

\* generate_response dispatches a content search the endpoint asked for
QDispatch(q) ==
    /\ queries[q].pc = "generating"
    /\ DoExecuteTool("search_course_content", InputQuery)
    /\ queries' = [queries EXCEPT ![q].got = @ \o IssuedBy(tool_out')]
    /\ made' = made \o Repeat(q, Len(IssuedBy(tool_out')))
    /\ UNCHANGED <<loopvars, scrapervars>>

\* generate_response returns a text
QAnswer(q) ==
    /\ queries[q].pc = "generating"
    /\ \E text \in QueryTexts :
          queries' = [queries EXCEPT ![q].pc = "answered", ![q].answer = text]
    /\ UNCHANGED <<regvars, loopvars, made, scrapervars>>

\* generate_response raises (the endpoint failed, or a tool call raised):
\* the exception leaves query() at once
QFail(q) ==
    /\ queries[q].pc = "generating"
    /\ queries' = [queries EXCEPT ![q].pc = "failed"]
    /\ UNCHANGED <<regvars, loopvars, made, scrapervars>>

\* get_all_sources(), and steps 1 to 3 of the filtering on what it returned
QCollect(q) ==
    /\ queries[q].pc = "answered"
    /\ DoGetAllSources
    /\ LET all_sources == get_all_sources(tools, objs)
       IN queries' = [queries EXCEPT
                        ![q].pc = "collected",
                        ![q].read = all_sources,
                        ![q].owners = made,
                        ![q].ops = Append(@, "read"),
                        ![q].result =
                            extract_cited_sources(queries[q].answer, all_sources)]
    /\ UNCHANGED <<loopvars, made, scrapervars>>

\* step 4: reset_sources(), and query() returns
QReset(q) ==
    /\ queries[q].pc = "collected"
    /\ DoResetSources
    /\ queries' = [queries EXCEPT ![q].pc = "done", ![q].ops = Append(@, "clear")]
    /\ made' = <<>>
    /\ UNCHANGED <<loopvars, scrapervars>>

NextQuery ==
    \E q \in Queries :
        \/ QStart(q)
        \/ QDispatch(q)
        \/ QAnswer(q)
        \/ QFail(q)
        \/ QCollect(q)
        \/ QReset(q)

SpecQuery == Init /\ [][NextQuery]_vars

(***************************************************************************)
(* Properties of generate_response.                                        *)
(***************************************************************************)
IsCall(e) == e.ev = "call"
IsRound(e) == e.ev = "round"
IsDispatch(e) == e.ev = "dispatch"

\* the endpoint calls made so far, the tool rounds run, the tools dispatched
Calls == SelectSeq(trace, IsCall)
Rounds == Len(SelectSeq(trace, IsRound))
Dispatches == SelectSeq(trace, IsDispatch)

RequestsTools(call) == call.response.stop_reason = "tool_use"
Answered(call) == call.response.stop_reason # "raised"
PlainText(call) == Answered(call) /\ ~RequestsTools(call)

\* the text of a response: that of its first text block, "" without one
TextOf(resp) ==
    LET at == {i \in 1..Len(resp.content) : resp.content[i].type = "text"}
    IN IF at = {} THEN <<>>
       ELSE resp.content[CHOOSE i \in at : \A j \in at : i <= j].text

\* the text holds digits enclosed in square brackets
HasMarker(text) ==
    \E i \in 1..Len(text) :
        /\ text[i] = "["
        /\ \E n \in 1..Len(text) :
              /\ i + n + 1 <= Len(text)
              /\ text[i + n + 1] = "]"
              /\ \A d \in 1..n : text[i + d] \in Digits

ToolsSupplied == args.tools # <<>>
ManagerSupplied == args.tool_manager # <<>>

AlwaysRequestsTools == \A i \in 1..Len(Calls) : RequestsTools(Calls[i])

ToolRoundsThenText(k) ==
    /\ Len(Calls) >= k + 1
    /\ \A i \in 1..k : RequestsTools(Calls[i])
    /\ PlainText(Calls[k + 1])

UncitedAfterTools(i) ==
    /\ Calls[i].site = "loop"
    /\ Calls[i].count >= 1
    /\ PlainText(Calls[i])
    /\ ~HasMarker(TextOf(Calls[i].response))

C4_Original ==
    (pc = "done" /\ ~ToolsSupplied)
    => /\ Len(Calls) = 1
       /\ ~Calls[1].offered
       /\ result.text = TextOf(Calls[1].response)

\* C4, amended: a generate_response call made with no tools never sends a
\* tools parameter, and when the response of its first endpoint call does not
\* request tool use it makes no other call and returns the text of that one
C4_NoToolsDirect ==
    ~ToolsSupplied
    => /\ \A i \in 1..Len(Calls) : ~Calls[i].offered
       /\ (Len(Calls) >= 1 /\ PlainText(Calls[1]))
          => /\ Len(Calls) = 1
             /\ Dispatches = <<>>
             /\ pc = "done"
             /\ result.text = TextOf(Calls[1].response)

C4_Witness ==
    /\ pc = "done" /\ ~ToolsSupplied /\ ManagerSupplied
    /\ Len(Calls) = 1
    /\ result.text = TxtPlain

\* the three conditions under which the loop may offer tools
MayOfferTools(call) ==
    /\ ToolsSupplied
    /\ ManagerSupplied
    /\ call.count < MAX_SEQUENTIAL_TOOL_CALLS

\* C5 as the spec states it: in every endpoint call tools are offered if and
\* only if tools and a tool manager were supplied and the tool-call count is
\* below MAX_SEQUENTIAL_TOOL_CALLS at the time of the call
C5_Original ==
    \A i \in 1..Len(Calls) : Calls[i].offered <=> MayOfferTools(Calls[i])

\* C5, amended: this holds of every endpoint call the loop itself makes; the
\* forced final call and the citation-revision call never offer tools,
\* whatever the count
C5_ToolOffer ==
    \A i \in 1..Len(Calls) :
        /\ Calls[i].site = "loop" => (Calls[i].offered <=> MayOfferTools(Calls[i]))
        /\ Calls[i].site # "loop" => ~Calls[i].offered

C5_Witness ==
    /\ Len(Calls) >= 2
    /\ Calls[1].offered
    /\ Calls[Len(Calls)].site = "revise"
    /\ MayOfferTools(Calls[Len(Calls)])

\* C6: a forced call (the forced final call, or the citation revision call)
\* is the last thing generate_response does: no tool is dispatched and no
\* endpoint call is made after it, and its text is returned even when the
\* response requests tools or holds no citation
C6_ForcedIsFinal ==
    \A i \in 1..Len(trace) :
        (IsCall(trace[i]) /\ trace[i].site \in {"force", "revise"})
        => /\ i = Len(trace)
           /\ Answered(trace[i])
              => /\ pc = "done"
                 /\ result.text = TextOf(trace[i].response)

C6_Witness ==
    /\ pc = "done"
    /\ trace[Len(trace)].site = "force"
    /\ RequestsTools(trace[Len(trace)])

(***************************************************************************)
(* Properties of the tool registry and the content-search tool.           *)
(***************************************************************************)
RegisteredSearch == Registered(tools) \cap SearchInsts

\* C7: between two resets of a content-search tool the citation numbers it
\* has issued are exactly 1..T in increasing order, T being the number of
\* results it has returned since the reset: a later invocation continues
\* from the counter and neither reuses nor restarts a number
C7_CumulativeNumbering ==
    \A inst \in SearchInsts :
        /\ Len(issued[inst]) = returned[inst]
        /\ \A i \in 1..Len(issued[inst]) : issued[inst][i] = i

C7_Witness ==
    /\ last_op = "execute_tool"
    /\ tool_out.kind = "results"
    /\ tool_out.blocks[1].citation_num = 2
    /\ \E inst \in SearchInsts : issued[inst] = <<1, 2, 3>>

\* C8: in every reachable state of the registry the list get_all_sources
\* returns has citation_num strictly increasing in creation order
C8_SourcesIncreasing ==
    LET sources == get_all_sources(tools, objs)
    IN \A i \in 1..Len(sources), j \in 1..Len(sources) :
          i < j => sources[i].citation_num < sources[j].citation_num

C8_Witness ==
    /\ last_op = "get_all_sources"
    /\ Len(get_all_sources(tools, objs)) = 3
    /\ \E inst \in SearchInsts \ Registered(tools) : objs[inst].source_counter > 0

Clean(inst) == objs[inst].all_sources = <<>> /\ objs[inst].source_counter = 0

\* C9: ToolManager.reset_sources leaves every registered evidence-tracking
\* tool with an empty evidence list and a zero counter, whatever it had
\* accumulated, and the first result of the next content search is numbered 1
C9_ResetClears ==
    /\ [](last_op = "reset_sources"
            => /\ \A inst \in RegisteredSearch : Clean(inst)
               /\ get_all_sources(tools, objs) = <<>>)
    /\ [][(last_op = "reset_sources" /\ last_op' = "execute_tool"
              /\ tool_out'.kind = "results")
            => tool_out'.blocks[1].citation_num = 1]_vars

C9_Witness ==
    /\ last_op = "reset_sources"
    /\ reset_streak = 1
    /\ pre_reset = 3
    /\ RegisteredSearch # {}

\* C10: reset_sources is idempotent: a second call in a row changes neither
\* the registered tools nor any tool's evidence list or counter, which the
\* first call left empty and zero
C10_ResetIdempotent ==
    /\ [][(reset_streak = 1 /\ reset_streak' = 2)
            => (tools' = tools /\ objs' = objs)]_vars
    /\ [](reset_streak = 2 => \A inst \in RegisteredSearch : Clean(inst))

C10_Witness ==
    /\ reset_streak = 2
    /\ pre_reset >= 2
    /\ Len(tools) = 2

(***************************************************************************)
(* Error handling of the registry and the content-search tool.            *)
(***************************************************************************)
\* the outcomes of execute_tool that are a returned string
StringKinds == {"not_found", "error", "empty", "results", "no_course", "outline"}

\* C11 as the spec states it: whatever tool name and keyword arguments are
\* dispatched, ToolManager.execute_tool returns a string and raises nothing
C11_Original == last_op = "execute_tool" => tool_out.kind \in StringKinds

\* C12: dispatching a name that is not registered returns the string
\* "Tool '{name}' not found" and changes nothing: the registry, every tool's
\* evidence list and every citation counter stay as they were
C12_UnknownToolInert ==
    [][(last_op' = "execute_tool" /\ called'.name \notin ToolNames(tools))
        => /\ tool_out' = [kind |-> "not_found",
                           text |-> <<"Tool '", called'.name, "' not found">>]
           /\ tools' = tools
           /\ objs' = objs
           /\ issued' = issued
           /\ returned' = returned]_vars

C12_Witness ==
    /\ last_op = "execute_tool"
    /\ called.name = "get_course_outline"
    /\ called.name \notin ToolNames(tools)
    /\ tool_out.kind = "not_found"
    /\ \E inst \in RegisteredSearch : objs[inst].source_counter = 2

\* C13: register_tool with a definition that has no name, or an empty one,
\* raises ValueError and leaves the registry as it was; with a named
\* definition it stores the tool under exactly that name, one entry per
\* name, and leaves the tools under other names alone
C13_RegisterByName ==
    [][last_op' = "register_tool"
        => LET inst == called'.inst
               name == ToolName(inst)
           IN IF name \in {None, ""}
              THEN /\ tool_out'.kind = "ValueError"
                   /\ tools' = tools
              ELSE /\ tool_out'.kind = "none"
                   /\ ToolNames(tools') = ToolNames(tools) \cup {name}
                   /\ Len(tools') = Cardinality(ToolNames(tools'))
                   /\ Lookup(tools', name) = inst
                   /\ \A other \in ToolNames(tools) \ {name} :
                         Lookup(tools', other) = Lookup(tools, other)]_vars

C13_Witness ==
    /\ last_op = "register_tool"
    /\ called.inst = "e1"
    /\ tool_out.kind = "ValueError"
    /\ Len(tools) = 2

\* the dispatched call reached CourseSearchTool.execute
SearchCalled ==
    /\ last_op = "execute_tool"
    /\ called.name \in ToolNames(tools)
    /\ Kind(Lookup(tools, called.name)) = "search"
    /\ AcceptsKwargs(Lookup(tools, called.name), called.input)

IndexError == called.results.error \notin {None, ""}

\* C14: when the index reports an error for a content search, execute
\* returns the error string verbatim and the evidence list and the citation
\* counter of every tool stay as they were
C14_IndexErrorVerbatim ==
    [][(SearchCalled /\ IndexError)'
        => /\ tool_out' = [kind |-> "error", text |-> called'.results.error]
           /\ objs' = objs]_vars

C14_Witness ==
    /\ SearchCalled
    /\ IndexError
    /\ tool_out.text = "Search error occurred"
    /\ objs[Lookup(tools, called.name)].source_counter = 2

\* the suffix of the message with one part per filter that was passed
GivenFilters(input) ==
    (IF "course_name" \in DOMAIN input
     THEN <<" in course '", input.course_name, "'">> ELSE <<>>)
    \o (IF "lesson_number" \in DOMAIN input
        THEN <<" in lesson ", input.lesson_number>> ELSE <<>>)

\* C15 as the spec states it: when a content search returns an empty result
\* set, execute returns "No relevant content found" followed by the course
\* suffix whenever course_name was given and the lesson suffix whenever
\* lesson_number was given, lesson 0 included, and adds no evidence item and
\* leaves the counter unchanged
C15_Original ==
    [][(SearchCalled /\ ~IndexError /\ is_empty(called.results))'
        => /\ tool_out'.text = <<"No relevant content found">>
                                  \o GivenFilters(called'.input) \o <<".">>
           /\ objs' = objs]_vars

(***************************************************************************)
(* Properties of the post-loop citation filtering and of the queries that *)
(* share one registry.                                                     *)
(***************************************************************************)
\* a marker opens at i and closes at j: "[", one or more digits, "]"
ClosesAt(text, i, j) ==
    /\ text[i] = "["
    /\ i + 1 < j
    /\ text[j] = "]"
    /\ \A k \in (i + 1)..(j - 1) : text[k] \in Digits

MarkerStarts(text) ==
    {i \in 1..Len(text) : \E j \in 1..Len(text) : ClosesAt(text, i, j)}

MarkerNumber(text, i) ==
    LET j == CHOOSE e \in 1..Len(text) : ClosesAt(text, i, e)
    IN NumberFrom(text, i + 1, j - 1, 0)

\* the numbers of the markers of a text, in the order the markers stand
MarkerNumbers(text) ==
    LET starts == MarkerStarts(text)
        nth(k) == CHOOSE i \in starts : Cardinality({j \in starts : j < i}) = k - 1
    IN [k \in 1..Cardinality(starts) |-> MarkerNumber(text, nth(k))]

Range(seq) == {seq[k] : k \in 1..Len(seq)}

\* where n first stands in a sequence of numbers
FirstAt(nums, n) == CHOOSE k \in 1..Len(nums) : nums[k] = n /\ \A j \in 1..(k - 1) : nums[j] # n

\* query q has filtered the evidence it collected
Filtered(q) == queries[q].pc \in {"collected", "done"}

\* C16: the filtering keeps exactly the evidence items whose citation number
\* stands in a marker of the response text, numbers them 1..k in the order
\* in which their markers first appear, and rewrites every marker of a kept
\* item to the item's new number, so that no old number of a kept item is
\* left in the text unless it is one of the new numbers 1..k
C16_FilterAndRenumber ==
    \A q \in Queries :
        Filtered(q)
        => LET evidence == queries[q].read
               out == queries[q].result
               old == MarkerNumbers(queries[q].answer)
               new == MarkerNumbers(out.response)
               cited == Range(old) \cap NumbersOf(evidence)
               rank(n) == Cardinality({m \in cited : FirstAt(old, m) <= FirstAt(old, n)})
           IN /\ Len(out.sources) = Cardinality(cited)
              /\ \A n \in cited :
                    out.sources[rank(n)] =
                        [SourceNumbered(evidence, n) EXCEPT !.citation_num = rank(n)]
              /\ Len(new) = Len(old)
              /\ \A k \in 1..Len(old) : old[k] \in cited => new[k] = rank(old[k])
              /\ \A n \in cited : n \in Range(new) => n \in 1..Cardinality(cited)

C16_Witness ==
    \E q \in Queries :
        /\ queries[q].pc = "done"
        /\ queries[q].answer = Txt313
        /\ Len(queries[q].read) = 3
        /\ Len(queries[q].result.sources) = 2
        /\ queries[q].result.response = <<"[", "1", "]", "a", "[", "2", "]", "[", "1", "]">>

\* C17 as the spec states it: whatever the response text and the evidence
\* collected, the numbers cited in the returned text are exactly the numbers
\* of the returned evidence items, one item per number
C17_Original ==
    \A q \in Queries :
        Filtered(q)
        => LET out == queries[q].result
           IN /\ Range(MarkerNumbers(out.response)) = NumbersOf(out.sources)
              /\ Cardinality(NumbersOf(out.sources)) = Len(out.sources)

\* C18: filtering a text that holds no marker returns the text unchanged
\* and an empty evidence list, whether evidence was collected or not
C18_UncitedUnchanged ==
    \A q \in Queries :
        (Filtered(q) /\ MarkerStarts(queries[q].answer) = {})
        => /\ queries[q].result.response = queries[q].answer
           /\ queries[q].result.sources = <<>>

C18_Witness ==
    \E q \in Queries :
        /\ queries[q].pc = "done"
        /\ queries[q].answer = TxtBrackets
        /\ Len(queries[q].read) = 2
        /\ queries[q].result = [response |-> TxtBrackets, sources |-> <<>>]

\* C19 as the spec states it: a logical query that runs with no other query
\* beside it starts from an empty evidence list and a zero counter, never
\* clears the evidence before it has read it out, and has cleared it exactly
\* once, after the read-out, when it ends
C19_Original ==
    \A q \in Queries :
        queries[q].alone
        => /\ queries[q].pc # "idle"
              => queries[q].base = [sources |-> 0, counter |-> 0]
           /\ queries[q].ops \in {<<>>, <<"read">>, <<"read", "clear">>}
           /\ queries[q].pc \in {"done", "failed"}
              => queries[q].ops = <<"read", "clear">>

\* C20: the queries that share the registry share one citation space.  The
\* search tool holds the items of every query since the last reset by any
\* query; a search of a query is numbered on from that shared count; a
\* query collects the whole list, whoever created the items; and its reset
\* empties the list and zeroes the counter for every query
C20_SharedCitationSpace ==
    /\ [](/\ objs[TheSearchTool].source_counter = Len(made)
          /\ Len(objs[TheSearchTool].all_sources) = Len(made))
    /\ [][\A q \in Queries :
            /\ queries'[q].got # queries[q].got
               => queries'[q].got =
                     queries[q].got
                     \o [i \in 1..(Len(made') - Len(made)) |-> Len(made) + i]
            /\ (queries[q].pc = "answered" /\ queries'[q].pc = "collected")
               => /\ Len(queries'[q].read) = Len(made)
                  /\ queries'[q].owners = made
            /\ (queries[q].pc = "collected" /\ queries'[q].pc = "done")
               => /\ get_all_sources(tools', objs') = <<>>
                  /\ objs'[TheSearchTool].source_counter = 0]_vars

\* an interleaving in which query o is numbered 2 where alone it would be
\* numbered 1, query q collects the item of o with its own, and o collects
\* nothing because q's reset took its item
C20_Witness ==
    \E q \in Queries, o \in Queries :
        /\ q # o
        /\ queries[q].pc = "done"
        /\ queries[o].pc = "done"
        /\ queries[q].got = <<1>>
        /\ queries[o].got = <<2>>
        /\ queries[q].owners = <<q, o>>
        /\ Len(queries[q].read) = 2
        /\ queries[o].read = <<>>

(***************************************************************************)
(* Further properties of generate_response: the citation check, endpoint  *)
(* failures, the tool-call count and the message sequence.                 *)
(***************************************************************************)
\* C21: the citation-presence check runs only after a tool round.  A plain
\* text received with a tool-call count of zero is returned as it is after
\* exactly one endpoint call and no dispatch, also when tools were offered
\* and the text holds no [n] marker; no citation revision is ever requested
\* at a count of zero
C21_NoCheckWithoutTools ==
    /\ (Len(Calls) >= 1 /\ Calls[1].count = 0 /\ PlainText(Calls[1]))
       => /\ Len(Calls) = 1
          /\ Dispatches = <<>>
          /\ pc = "done"
          /\ result = [kind |-> "text", text |-> TextOf(Calls[1].response)]
    /\ \A i \in 1..Len(Calls) : Calls[i].site = "revise" => Calls[i].count >= 1
    /\ pc = "revise" => tool_call_count >= 1

C21_Witness ==
    /\ pc = "done"
    /\ Len(Calls) = 1
    /\ Calls[1].offered
    /\ Calls[1].count = 0
    /\ ~HasMarker(TextOf(Calls[1].response))
    /\ result.text = TxtPlain

\* the plain-text answer of call i came after a tool round and holds a marker
CitedAfterTools(i) ==
    /\ Calls[i].site = "loop"
    /\ Calls[i].count >= 1
    /\ PlainText(Calls[i])
    /\ HasMarker(TextOf(Calls[i].response))

\* C22: a plain-text response reached after at least one tool round whose
\* text holds digits enclosed in square brackets is returned unchanged: the
\* call that received it is the last thing generate_response did, no
\* endpoint call and no dispatch follows it
C22_CitedReturned ==
    \A i \in 1..Len(Calls) :
        CitedAfterTools(i)
        => /\ i = Len(Calls)
           /\ trace[Len(trace)] = Calls[i]
           /\ pc = "done"
           /\ result = [kind |-> "text", text |-> TextOf(Calls[i].response)]

C22_Witness ==
    /\ pc = "done"
    /\ Len(Calls) = 3
    /\ CitedAfterTools(3)
    /\ result.text = TxtCited12

(***************************************************************************)
(* Endpoint failures.                                                      *)
(***************************************************************************)
\* C24: a failure of the inference endpoint at any endpoint call (in the
\* loop, the forced final call or the citation revision call) propagates to
\* the caller: the failing call is the last thing that generate_response
\* did, no endpoint call and no tool dispatch follows it, and the call ends
\* with the endpoint's exception
C24_EndpointFailurePropagates ==
    \A i \in 1..Len(trace) :
        (IsCall(trace[i]) /\ ~Answered(trace[i]))
        => /\ i = Len(trace)
           /\ pc = "failed"
           /\ result = [kind |-> "raised", error |-> "APIError"]

C24_Witness ==
    /\ pc = "failed"
    /\ Len(Calls) = 3
    /\ Calls[3].site = "revise"
    /\ ~Answered(Calls[3])
    /\ Rounds = 1

(***************************************************************************)
(* The tool-call count and the message sequence.                           *)
(***************************************************************************)
\* a tool of the last round raised, which ended generate_response
ToolRaised == pc = "failed" /\ result.error # "APIError"

\* the tool_use blocks of a response
ToolUses(resp) ==
    SelectSeq(resp.content, LAMBDA b : b.type = "tool_use")

\* C27: the tool-call count is at every moment the number of tool rounds
\* that have been completed, one per round whether the response of the round
\* held one tool_use block or several, and it is always between 0 and
\* MAX_SEQUENTIAL_TOOL_CALLS; it changes in no other step
C27_CountPerRound ==
    /\ [](/\ tool_call_count \in 0..MAX_SEQUENTIAL_TOOL_CALLS
          /\ tool_call_count = IF ToolRaised THEN Rounds - 1 ELSE Rounds)
    /\ [][IF Rounds' = Rounds + 1 /\ ~ToolRaised'
          THEN tool_call_count' = tool_call_count + 1
          ELSE tool_call_count' = tool_call_count]_vars

C27_Witness ==
    /\ pc = "loop"
    /\ tool_call_count = MAX_SEQUENTIAL_TOOL_CALLS
    /\ Len(Dispatches) = tool_call_count + 2
    /\ Len(ToolUses(Calls[1].response)) = 1
    /\ Len(ToolUses(Calls[2].response)) = 2

\* a tool round has been run to its end in this step
RoundCompleted == Rounds' = Rounds + 1 /\ ~ToolRaised'

\* the response that asked for the round just run
RoundResponse == Calls[Len(Calls)].response

\* one tool_result per tool_use block, in the order of the blocks, each
\* keyed to the id of its block and holding a returned string
ResultsKeyed(tool_results, uses) ==
    /\ Len(tool_results) = Len(uses)
    /\ \A k \in 1..Len(uses) :
          /\ tool_results[k].type = "tool_result"
          /\ tool_results[k].tool_use_id = uses[k].id
          /\ tool_results[k].content.kind \in StringKinds

Extends(b, a) == Len(a) < Len(b) /\ SubSeq(b, 1, Len(a)) = a

\* C29: the message sequence of one generate_response is append-only.  The
\* sequence sent in an endpoint call extends the sequence sent in the call
\* before it; the tool round, the forced final call and the citation
\* revision build the sequence they need in a new list and leave the list
\* they were given as it is, so that every list sent to the endpoint still
\* reads as it was sent and the loop's own sequence is not touched by a
\* forced or a revision call
C29_AppendOnly ==
    /\ [](/\ \A i \in 1..(Len(Calls) - 1) :
                Extends(Calls[i + 1].messages, Calls[i].messages)
          /\ \A i \in 1..Len(Calls) : lists[Calls[i].list] = Calls[i].messages
          /\ cur > 0 => messages = lists[cur])
    /\ [][/\ Len(lists') >= Len(lists)
          /\ \A id \in 1..Len(lists) : lists'[id] = lists[id]
          /\ pc \in {"force", "revise"} => (cur' = cur /\ messages' = messages)
          /\ cur' # cur => (cur' = Len(lists') /\ cur' > Len(lists))]_vars

C29_Witness ==
    /\ pc = "done"
    /\ Len(Calls) = 3
    /\ Calls[3].site = "revise"
    /\ Len(lists) = 3
    /\ cur = 2
    /\ Calls[2].list = 2
    /\ Calls[3].list = 3
    /\ Len(lists[3]) = Len(messages) + 2
    /\ Len(messages) = Len(lists[1]) + 2

\* the response of the call at trace position p asked for a tool round that
\* the loop ran
RanRound(p) ==
    /\ IsCall(trace[p])
    /\ trace[p].site = "loop"
    /\ RequestsTools(trace[p])
    /\ trace[p].count < MAX_SEQUENTIAL_TOOL_CALLS

\* C30: every tool call that a response requests is dispatched, in the order
\* of the blocks, and its result collected before the next endpoint call is
\* made.  In the trace the dispatches of a round stand between its call and
\* the next call, one per tool_use block; every later call sends the request
\* message followed by the message with all its results; and a call is made
\* only when the call before it has been answered
C30_RoundBeforeNextCall ==
    /\ \A p \in 1..Len(trace) :
          RanRound(p)
          => LET uses == ToolUses(trace[p].response)
                 n == Len(trace[p].messages)
             IN \A q \in (p + 1)..Len(trace) :
                   IsCall(trace[q])
                   => /\ q = p + 2 + Len(uses)
                         \/ \E m \in (p + 1)..(q - 1) : IsCall(trace[m])
                      /\ \A k \in 1..Len(uses) :
                            /\ IsDispatch(trace[p + 1 + k])
                            /\ trace[p + 1 + k].id = uses[k].id
                            /\ trace[p + 1 + k].name = uses[k].name
                      /\ Len(trace[q].messages) >= n + (IF uses = <<>> THEN 1 ELSE 2)
                      /\ trace[q].messages[n + 1].role = "assistant"
                      /\ uses # <<>>
                         => /\ trace[q].messages[n + 2].role = "user"
                            /\ ResultsKeyed(trace[q].messages[n + 2].content, uses)
    /\ \A i \in 1..(Len(Calls) - 1) : Answered(Calls[i])

C30_Witness ==
    /\ Len(trace) >= 5
    /\ RanRound(1)
    /\ Len(ToolUses(trace[1].response)) = 2
    /\ IsDispatch(trace[3])
    /\ IsDispatch(trace[4])
    /\ IsCall(trace[5])
    /\ Len(trace[5].messages[3].content) = 2

(***************************************************************************)
(* Further properties of the registry.                                     *)
(***************************************************************************)
\* the dispatched call went to the registered CourseOutlineTool
OutlineCalled ==
    /\ last_op = "execute_tool"
    /\ called.name \in ToolNames(tools)
    /\ Kind(Lookup(tools, called.name)) = "outline"

\* C23: executing the outline tool, whether the course is found or not,
\* creates no evidence item and changes no citation counter: every tool's
\* evidence and counter, and the list get_all_sources returns, are the same
\* before and after
C23_OutlineNoEvidence ==
    [][OutlineCalled'
        => /\ objs' = objs
           /\ tools' = tools
           /\ get_all_sources(tools', objs') = get_all_sources(tools, objs)
           /\ AcceptsKwargs(Lookup(tools, called'.name), called'.input)
              => tool_out'.kind =
                    IF get_course_metadata(called'.input.course_title) = <<>>
                    THEN "no_course" ELSE "outline"]_vars

C23_Witness ==
    /\ OutlineCalled
    /\ tool_out.kind = "outline"
    /\ Len(get_all_sources(tools, objs)) = 2
    /\ \E inst \in RegisteredSearch : objs[inst].source_counter = 2

\* C25: get_tool_definitions returns one definition per registered tool, in
\* registration order: the i-th definition is that of the tool held by the
\* i-th entry and no name occurs twice; registering a tool under a new name
\* adds its definition at the end, registering under a name already there
\* puts the definition in the place of the one it replaces, a refused
\* registration and every other operation leave the list as it was
C25_DefinitionsInOrder ==
    /\ [](LET defs == get_tool_definitions(tools)
          IN /\ Len(defs) = Len(tools)
             /\ \A i \in 1..Len(defs) : defs[i] = ToolName(tools[i].inst)
             /\ \A i \in 1..Len(defs), j \in 1..Len(defs) :
                   defs[i] = defs[j] => i = j)
    /\ [][LET defs == get_tool_definitions(tools)
              after == get_tool_definitions(tools')
          IN IF last_op' = "register_tool" /\ tool_out'.kind = "none"
             THEN LET name == ToolName(called'.inst)
                  IN IF name \in ToolNames(tools)
                     THEN /\ after = defs
                          /\ Lookup(tools', name) = called'.inst
                     ELSE after = Append(defs, name)
             ELSE after = defs]_vars

C25_Witness ==
    /\ last_op = "register_tool"
    /\ called.inst = "s2"
    /\ objs["s1"].source_counter > 0
    /\ Len(tools) = 2
    /\ tools[2].inst = "s2"
    /\ get_tool_definitions(tools) = <<"get_course_outline", "search_course_content">>

\* the evidence list of the tool held by the i-th entry, empty for a tool
\* that tracks none
EvidenceOf(i) ==
    IF tools[i].inst \in SearchInsts THEN objs[tools[i].inst].all_sources ELSE <<>>

\* how many items the entries before the i-th hold together
RECURSIVE ItemsBefore(_)
ItemsBefore(i) == IF i <= 1 THEN 0 ELSE ItemsBefore(i - 1) + Len(EvidenceOf(i - 1))

\* C26: get_all_sources returns the evidence lists of the registered tools
\* that track evidence, one after the other in the order of the registry and
\* each in its own order; a tool that tracks none adds nothing, nor does a
\* tool that is not registered; and the call changes no tool's evidence list
\* or counter
C26_SourcesConcatenated ==
    /\ [](LET sources == get_all_sources(tools, objs)
          IN /\ Len(sources) = ItemsBefore(Len(tools) + 1)
             /\ \A i \in 1..Len(tools) :
                   \A k \in 1..Len(EvidenceOf(i)) :
                       sources[ItemsBefore(i) + k] = EvidenceOf(i)[k])
    /\ [][last_op' = "get_all_sources"
            => /\ objs' = objs
               /\ tools' = tools
               /\ get_all_sources(tools', objs') = get_all_sources(tools, objs)]_vars

C26_Witness ==
    /\ last_op = "get_all_sources"
    /\ Len(tools) = 2
    /\ tools[1].inst = "o1"
    /\ Len(get_all_sources(tools, objs)) = 2
    /\ \E inst \in SearchInsts \ Registered(tools) : objs[inst].all_sources # <<>>

(***************************************************************************)
(* The forced calls, the system content and termination.                   *)
(***************************************************************************)
\* C31: every forced endpoint call is made without tools and sends the
\* loop's sequence with an instruction appended as its last message.  The
\* forced final call follows a loop call made at the bound whose response
\* still requested tools, and appends the request for a final answer; the
\* revision call follows an uncited plain text received after a tool round,
\* and appends that text as an assistant message and then the request for
\* bracket-style citations
C31_ForcedCallMessages ==
    \A i \in 1..Len(Calls) :
        /\ Calls[i].site = "force"
           => /\ ~Calls[i].offered
              /\ i > 1
              /\ Calls[i - 1].site = "loop"
              /\ RequestsTools(Calls[i - 1])
              /\ Calls[i - 1].count = MAX_SEQUENTIAL_TOOL_CALLS
              /\ Calls[i].messages =
                    Append(Calls[i - 1].messages,
                           [role |-> "user", content |-> FinalInstruction])
        /\ Calls[i].site = "revise"
           => /\ ~Calls[i].offered
              /\ i > 1
              /\ UncitedAfterTools(i - 1)
              /\ Len(Calls[i].messages) = Len(Calls[i - 1].messages) + 2
              /\ SubSeq(Calls[i].messages, 1, Len(Calls[i - 1].messages))
                    = Calls[i - 1].messages
              /\ Calls[i].messages[Len(Calls[i].messages) - 1] =
                    [role |-> "assistant",
                     content |-> TextOf(Calls[i - 1].response)]
              /\ Calls[i].messages[Len(Calls[i].messages)] =
                    [role |-> "user", content |-> CitationReminder]

C31_Witness ==
    /\ pc = "done"
    /\ Len(Calls) = MAX_SEQUENTIAL_TOOL_CALLS + 2
    /\ Calls[Len(Calls)].site = "force"
    /\ Calls[Len(Calls)].messages[Len(Calls[Len(Calls)].messages)].content
          = FinalInstruction

\* a non-empty conversation history was supplied
HistorySupplied ==
    /\ args.conversation_history # <<>>
    /\ args.conversation_history[1] # ""

\* C32: the system content is built once on entry: the fixed prompt, with
\* the history block appended exactly when a non-empty history was supplied.
\* It does not change afterwards, and every endpoint call (loop, forced
\* final, citation revision) carries exactly this content
C32_SystemContentFixed ==
    /\ [](pc # "idle"
            => /\ system_content[1] = SYSTEM_PROMPT
               /\ IF HistorySupplied
                  THEN /\ Len(system_content) = 3
                       /\ system_content[3] = args.conversation_history[1]
                  ELSE Len(system_content) = 1
               /\ \A i \in 1..Len(Calls) : Calls[i].system = system_content)
    /\ [][pc # "idle" => (system_content' = system_content /\ args' = args)]_vars

C32_Witness ==
    /\ pc = "done"
    /\ HistorySupplied
    /\ Len(Calls) = 3
    /\ Calls[3].site = "revise"
    /\ Calls[1].system = <<SYSTEM_PROMPT, "\n\nPrevious conversation:\n", "User: Hi">>
    /\ Calls[3].system = Calls[1].system

\* C33: whatever the endpoint answers, generate_response makes at most
\* MAX_SEQUENTIAL_TOOL_CALLS + 2 endpoint calls and runs at most
\* MAX_SEQUENTIAL_TOOL_CALLS tool rounds, and once called it ends, by a
\* return or by an exception, provided every endpoint call comes back
C33_Terminates ==
    /\ [](/\ Len(Calls) <= MAX_SEQUENTIAL_TOOL_CALLS + 2
          /\ Rounds <= MAX_SEQUENTIAL_TOOL_CALLS)
    /\ (pc # "idle") ~> (pc \in {"done", "failed"})

C33_Witness ==
    /\ pc = "done"
    /\ Len(Calls) = MAX_SEQUENTIAL_TOOL_CALLS + 2
    /\ Rounds = MAX_SEQUENTIAL_TOOL_CALLS
    /\ Calls[Len(Calls)].site = "revise"
    /\ RequestsTools(Calls[Len(Calls)])

(***************************************************************************)
(* Further properties of the content-search tool and the registry.        *)
(***************************************************************************)
\* the dispatched content search had results to format
SearchFormatted ==
    /\ SearchCalled
    /\ ~IndexError
    /\ ~is_empty(called.results)

\* C34: a content search with an error-free, non-empty result appends one
\* evidence item per (document, metadata) pair, in order, and returns one
\* block per pair that holds the document, the item's title and the item's
\* citation_num as its bracketed number.  The title is the course title,
\* with " - Lesson n" appended exactly when the metadata holds a lesson
\* number, lesson 0 included; the url is what the store's lesson-link lookup
\* answers in that case and None without a lookup otherwise
C34_ItemPerPair ==
    [][SearchFormatted'
        => LET inst == Lookup(tools, called'.name)
               docs == called'.results.documents
               metas == called'.results.metadata
               old == objs[inst].all_sources
               new == objs'[inst].all_sources
               blocks == tool_out'.blocks
           IN /\ tool_out'.kind = "results"
              /\ Len(docs) = Len(metas)
              /\ Len(blocks) = Len(docs)
              /\ Len(new) = Len(old) + Len(docs)
              /\ SubSeq(new, 1, Len(old)) = old
              /\ \A o \in SearchInsts \ {inst} : objs'[o] = objs[o]
              /\ \A k \in 1..Len(docs) :
                    LET item == new[Len(old) + k]
                        meta == metas[k]
                        lesson == "lesson_number" \in DOMAIN meta
                    IN /\ blocks[k].citation_num = item.citation_num
                       /\ blocks[k].source_title = item.title
                       /\ blocks[k].doc = docs[k]
                       /\ item.title[1] = meta.course_title
                       /\ IF lesson
                          THEN /\ item.title = <<meta.course_title, " - Lesson ",
                                                  meta.lesson_number>>
                               /\ item.url = get_lesson_link(meta.course_title,
                                                             meta.lesson_number)
                               /\ item.url # None
                          ELSE /\ item.title = <<meta.course_title>>
                               /\ item.url = None]_vars

C34_Witness ==
    /\ SearchFormatted
    /\ called.results = ResultsTwo
    /\ tool_out.blocks[2].citation_num = 3
    /\ LET items == objs[Lookup(tools, called.name)].all_sources
       IN /\ Len(items) = 3
          /\ items[2].title = <<"Introduction to MCP">>
          /\ items[3].title = <<"Introduction to MCP", " - Lesson ", 0>>
          /\ items[3].url = "https://example.com/lesson0"

\* C35: in every reachable state of every CourseSearchTool, registered or
\* not, after any sequence of successful, empty and failing searches and of
\* resets, the citation counter is the length of the evidence list and the
\* i-th evidence item has citation_num i
C35_CounterMatchesList ==
    \A inst \in SearchInsts :
        /\ objs[inst].source_counter = Len(objs[inst].all_sources)
        /\ \A i \in 1..Len(objs[inst].all_sources) :
              objs[inst].all_sources[i].citation_num = i

C35_Witness ==
    /\ SearchCalled
    /\ tool_out.kind = "empty"
    /\ objs[Lookup(tools, called.name)].source_counter = 1
    /\ \E inst \in SearchInsts \ Registered(tools) : objs[inst].source_counter = 3
    /\ returned[Lookup(tools, called.name)] = 1

IsPrefix(a, b) == Len(a) <= Len(b) /\ \A i \in 1..Len(a) : a[i] = b[i]

\* C36: generate_response never resets the registry's evidence: every step
\* of it leaves each tool's evidence list a prefix of what it is afterwards,
\* only a step that dispatched changes it at all, and once it has returned
\* or failed, on an endpoint failure as well, every item its dispatches
\* created is still held
C36_EvidenceKept ==
    /\ [](pc \in {"done", "failed"} =>
            \A inst \in SearchInsts :
                Len(objs[inst].all_sources) = returned[inst])
    /\ [][/\ \A inst \in SearchInsts :
               IsPrefix(objs[inst].all_sources, objs'[inst].all_sources)
          /\ objs' # objs => Len(Dispatches') > Len(Dispatches)
          /\ tools' = tools]_vars

C36_Witness ==
    /\ pc = "failed"
    /\ result.error = "APIError"
    /\ Rounds = 2
    /\ Len(get_all_sources(tools, objs)) = 3

(***************************************************************************)
(* The roles of the messages sent                                          *)
(***************************************************************************)
StartsWithQuery(msgs) ==
    /\ Len(msgs) >= 1
    /\ msgs[1].role = "user"
    /\ msgs[1].content = args.query

SameRole(msgs, k) == msgs[k].role = msgs[k + 1].role

\* C37 as stated: every sequence sent starts with the user query and no two
\* adjacent messages of it have the same role
C37_Original ==
    \A i \in 1..Len(Calls) :
        LET msgs == Calls[i].messages
        IN /\ StartsWithQuery(msgs)
           /\ \A k \in 1..(Len(msgs) - 1) : ~SameRole(msgs, k)

\* C37: every sequence sent starts with the user query, and two adjacent
\* messages of it have the same role only where the forced-final call has
\* appended its instruction, a user message, right after the user message
\* that carries the last round's tool results, or where an assistant message
\* that holds no tool_use block, for which the round appended no user
\* message, is followed by the next assistant message
C37_RolesAlternateExcept ==
    \A i \in 1..Len(Calls) :
        LET msgs == Calls[i].messages
        IN /\ StartsWithQuery(msgs)
           /\ \A k \in 1..(Len(msgs) - 1) :
                 SameRole(msgs, k) =>
                     \/ /\ msgs[k].role = "user"
                        /\ Calls[i].site = "force"
                        /\ k + 1 = Len(msgs)
                        /\ k > 1
                        /\ msgs[k].content[1].type = "tool_result"
                     \/ /\ msgs[k].role = "assistant"
                        /\ \A j \in 1..Len(msgs[k].content) :
                              msgs[k].content[j].type # "tool_use"

\* a forced-final call whose last two messages are both user messages, and
\* in the same run a revision call would alternate
C37_Witness ==
    /\ Len(Calls) >= 1
    /\ LET c == Calls[Len(Calls)]
           n == Len(c.messages)
       IN /\ c.site = "force"
          /\ c.messages[n].role = "user"
          /\ c.messages[n - 1].role = "user"
          /\ c.messages[n - 1].content[1].type = "tool_result"
          /\ \A k \in 1..(n - 2) : ~SameRole(c.messages, k)

(***************************************************************************)
(* Registering a name again                                                *)
(***************************************************************************)
Tracked(inst) == IF HasAttr(inst, "all_sources") THEN objs[inst].all_sources ELSE <<>>

\* C38: the registry holds one tool per name; registering a tool under a
\* name that is registered puts it in the place of the earlier tool, which
\* is then no longer registered, and get_all_sources holds the new tool's
\* evidence where it held the earlier tool's; a later dispatch by that name
\* runs the latest tool and leaves every other tool object, the replaced
\* one included, as it was
C38_ReplacedByName ==
    /\ [](\A i \in 1..Len(tools), j \in 1..Len(tools) :
              tools[i].name = tools[j].name => i = j)
    /\ [][(/\ last_op' = "register_tool"
           /\ tool_out'.kind = "none"
           /\ ToolName(called'.inst) \in ToolNames(tools))
          => LET name == ToolName(called'.inst)
                 old == Lookup(tools, name)
                 new == called'.inst
             IN /\ Len(tools') = Len(tools)
                /\ \A i \in 1..Len(tools) :
                      tools'[i] = IF tools[i].name = name
                                  THEN [name |-> name, inst |-> new]
                                  ELSE tools[i]
                /\ old # new => old \notin Registered(tools')
                /\ Len(get_all_sources(tools', objs')) =
                      Len(get_all_sources(tools, objs))
                      - Len(Tracked(old)) + Len(Tracked(new))
                /\ objs' = objs]_vars
    /\ [][(last_op' = "execute_tool" /\ called'.name \in ToolNames(tools))
          => LET inst == Lookup(tools, called'.name)
             IN /\ \A other \in SearchInsts \ {inst} : objs'[other] = objs[other]
                /\ (SearchFormatted' /\ ~IndexError')
                      => objs'[inst].source_counter > objs[inst].source_counter]_vars

C38_Witness ==
    /\ SearchFormatted
    /\ Lookup(tools, called.name) = "s2"
    /\ objs["s1"].source_counter = 2
    /\ objs["s2"].source_counter = 1
    /\ Len(get_all_sources(tools, objs)) = 1

(***************************************************************************)
(* DeepLearningAIScraper (backend/course_scraper.py).  A URL is a record   *)
(* of its scheme, its host and the segments of its path; an href is the    *)
(* same record with the form it is written in: "rooted" for "/a/b",        *)
(* "relative" for "a/b", "absolute" for "https://host/a/b", "empty" for    *)
(* "".  A URL that was made absolute has the form "absolute", so that an   *)
(* href and a URL are the same string exactly when the records are equal.  *)
(***************************************************************************)
MaxAnchors == 3

Url(path) ==
    [form |-> "absolute", scheme |-> "https", netloc |-> "learn.deeplearning.ai",
     path |-> path]

Rooted(path) == [form |-> "rooted", scheme |-> "", netloc |-> "", path |-> path]

Relative(path) == [form |-> "relative", scheme |-> "", netloc |-> "", path |-> path]

\* parsed.path.strip('/').split('/')
path_parts(url) == IF url.path = <<>> THEN <<"">> ELSE url.path

\* DeepLearningAIScraper._extract_course_slug, None being <<>>
extract_course_slug(url) ==
    LET parts == path_parts(url)
    IN IF Len(parts) >= 2 /\ parts[1] = "courses" THEN <<parts[2]>> ELSE <<>>

\* the first index of text from i on that holds "|" after whitespace only,
\* 0 if there is none: where the pattern \s*\|.*$ matches first
RECURSIVE BarFrom(_, _)
BarFrom(text, i) ==
    IF i > Len(text) THEN 0
    ELSE LET j == CHOOSE j \in i..(Len(text) + 1) :
                     /\ \A k \in i..(j - 1) : text[k] = " "
                     /\ j > Len(text) \/ text[j] # " "
         IN IF j <= Len(text) /\ text[j] = "|" THEN i ELSE BarFrom(text, i + 1)

\* str.strip() of a text that has no leading whitespace
RECURSIVE Strip(_)
Strip(text) ==
    IF text # <<>> /\ text[Len(text)] = " " THEN Strip(SubSeq(text, 1, Len(text) - 1))
    ELSE text

\* the clean-up of a title, lines 148-150, for titles without "-"
clean_title(text) ==
    LET b == BarFrom(text, 1)
    IN Strip(IF b = 0 THEN text ELSE SubSeq(text, 1, b - 1))

\* the loop over title_selectors, lines 138-151: candidates are the texts of
\* the elements the selectors find, in the order of the selectors
RECURSIVE TitleFrom(_, _)
TitleFrom(candidates, i) ==
    IF i > Len(candidates) THEN <<>>
    ELSE IF candidates[i] # <<>> /\ Len(candidates[i]) > 3
    THEN clean_title(candidates[i])
    ELSE TitleFrom(candidates, i + 1)

\* DeepLearningAIScraper._extract_course_metadata for a page without an
\* instructor element
extract_course_metadata(page, url) ==
    LET parts == path_parts(url)
    IN [title |-> TitleFrom(page.titles, 1),
        instructor |-> <<>>,
        course_link |-> IF Len(parts) >= 2 /\ parts[1] = "courses"
                        THEN [form |-> "absolute", scheme |-> url.scheme,
                              netloc |-> url.netloc,
                              path |-> <<"courses", parts[2]>>]
                        ELSE url]

\* '/lesson/' in s, for s a URL that was made absolute
HasLesson(url) == \E k \in 1..(Len(url.path) - 1) : url.path[k] = "lesson"

\* the attribute selector a[href*="/lesson/"]: a relative href starts
\* without a slash
HrefHasLesson(href) ==
    \E k \in 1..(Len(href.path) - 1) :
        href.path[k] = "lesson" /\ (href.form = "relative" => k > 1)

\* nav_selectors, lines 184-191: the ancestor the anchor must have and
\* whether the href must contain "/lesson/"
nav_selectors ==
    << [within |-> "nav", lesson_href |-> TRUE],
       [within |-> "sidebar", lesson_href |-> TRUE],
       [within |-> "navigation", lesson_href |-> TRUE],
       [within |-> "lesson-list", lesson_href |-> FALSE],
       [within |-> "lessonList", lesson_href |-> FALSE],
       [within |-> "any", lesson_href |-> TRUE] >>

\* soup.select(selector): the anchors that match, in document order
select(anchors, selector) ==
    SelectSeq(anchors,
              LAMBDA a : /\ selector.within \in {"any", a.within}
                         /\ selector.lesson_href => HrefHasLesson(a.href))

\* urljoin(base_url, href) for a relative href without dot segments
urljoin(base_url, href) ==
    [form |-> "absolute", scheme |-> base_url.scheme, netloc |-> base_url.netloc,
     path |-> (IF base_url.path = <<>> THEN <<>>
               ELSE SubSeq(base_url.path, 1, Len(base_url.path) - 1)) \o href.path]

\* the test "href in seen_urls" of line 199
seen(href, full_url, seen_urls) == href \in seen_urls

\* lines 203-208
full_url_of(href, base_url) ==
    IF href.form = "rooted"
    THEN [form |-> "absolute", scheme |-> base_url.scheme,
          netloc |-> base_url.netloc, path |-> href.path]
    ELSE IF href.form # "absolute" THEN urljoin(base_url, href)
    ELSE href

\* the inner for loop of _get_lesson_list, lines 197-224, from element k on
RECURSIVE ScanElements(_, _, _, _)
ScanElements(elements, k, base_url, acc) ==
    IF k > Len(elements) THEN acc
    ELSE LET href == elements[k].href
             full_url == full_url_of(href, base_url)
         IN IF href.form = "empty" \/ seen(href, full_url, acc.seen_urls)
            THEN ScanElements(elements, k + 1, base_url, acc)
            ELSE IF ~HasLesson(full_url)
            THEN ScanElements(elements, k + 1, base_url, acc)
            ELSE ScanElements(elements, k + 1, base_url,
                     [seen_urls |-> acc.seen_urls \cup {full_url},
                      lessons |->
                          Append(acc.lessons,
                                 [url |-> full_url,
                                  title |-> IF elements[k].text # ""
                                            THEN <<elements[k].text>>
                                            ELSE <<"Lesson ", Len(acc.lessons)>>])])

\* the outer for loop, lines 195-227, from selector s on
RECURSIVE TrySelectors(_, _, _, _)
TrySelectors(anchors, base_url, s, acc) ==
    IF s > Len(nav_selectors) THEN acc.lessons
    ELSE LET next == ScanElements(select(anchors, nav_selectors[s]), 1, base_url, acc)
         IN IF next.lessons # <<>> THEN next.lessons
            ELSE TrySelectors(anchors, base_url, s + 1, next)

\* DeepLearningAIScraper._get_lesson_list
get_lesson_list(anchors, base_url) ==
    TrySelectors(anchors, base_url, 1, [seen_urls |-> {}, lessons |-> <<>>])

\* A text of a lesson page is a sequence of pieces: a run of ordinary words
\* or one of the phrases _clean_transcript removes.
UiPieces == {"Play Video", "0:42"}

PieceLen(piece) ==
    IF piece = "Play Video" THEN 10 ELSE IF piece = "0:42" THEN 4 ELSE 120

RECURSIVE TextLen(_)
TextLen(text) ==
    IF text = <<>> THEN 0
    ELSE PieceLen(text[1]) + (IF Len(text) > 1 THEN 1 ELSE 0) + TextLen(Tail(text))

\* DeepLearningAIScraper._clean_transcript
clean_transcript(text) == SelectSeq(text, LAMBDA piece : piece \notin UiPieces)

RECURSIVE Join(_)
Join(texts) == IF texts = <<>> THEN <<>> ELSE texts[1] \o Join(Tail(texts))

\* DeepLearningAIScraper._scrape_lesson_transcript, given what
\* session.get did; None is <<>> and a text t is <<t>>
scrape_lesson_transcript(fetch) ==
    IF fetch.kind = "raises" THEN <<>>
    ELSE IF fetch.status_code # 200 THEN <<>>
    ELSE LET viable == SelectSeq(fetch.selected,
                           LAMBDA t : /\ clean_transcript(t) # <<>>
                                      /\ TextLen(clean_transcript(t)) > 100)
             texts == SelectSeq(fetch.paragraphs, LAMBDA t : TextLen(t) > 50)
         IN IF viable # <<>> THEN <<clean_transcript(viable[1])>>
            ELSE IF texts # <<>> THEN <<clean_transcript(Join(texts))>>
            ELSE <<>>

\* DeepLearningAIScraper._format_as_script: the lines that are joined
RECURSIVE LessonLines(_)
LessonLines(ls) ==
    IF ls = <<>> THEN <<>>
    ELSE << <<"Lesson ", ls[1].number, ": ", ls[1].title>>,
            <<"Lesson Link: ", ls[1].url>>,
            <<ls[1].transcript>>,
            <<>> >> \o LessonLines(Tail(ls))

format_as_script(meta, ls) ==
    << <<"Course Title: ", meta.title>>,
       <<"Course Link: ", meta.course_link>>,
       <<"Course Instructor: ", meta.instructor>>,
       <<>> >> \o LessonLines(ls)

\* return "", message
Failed(message) == [kind |-> "returned", script |-> <<>>, error |-> <<message>>]

\* the except clauses of scrape_course, lines 103-108
scrape_course_except(exception) ==
    IF exception = "Timeout"
    THEN Failed(<<"Request timed out. The server may be slow or unavailable.">>)
    ELSE IF exception = "ConnectionError"
    THEN Failed(<<"Could not connect to the server. Please check your internet connection.">>)
    ELSE Failed(<<"Scraping error: ", exception>>)

\* scrape_course up to its for loop, lines 54-77, given what session.get did
scrape_course_begin(url, fetch) ==
    LET course_slug == extract_course_slug(url)
    IN IF course_slug = <<>> \/ course_slug[1] = ""
       THEN [kind |-> "return",
             result |-> Failed(<<"Could not extract course identifier from URL">>)]
       ELSE IF fetch.kind = "raises"
       THEN [kind |-> "return", result |-> scrape_course_except(fetch.exception)]
       ELSE IF fetch.status_code \in {401, 403}
       THEN [kind |-> "return",
             result |-> Failed(<<"Authentication failed. Please check your session cookie.">>)]
       ELSE IF fetch.status_code # 200
       THEN [kind |-> "return",
             result |-> Failed(<<"Failed to fetch course page: HTTP ", fetch.status_code>>)]
       ELSE LET meta == extract_course_metadata(fetch.page, url)
                found == get_lesson_list(fetch.page.anchors, url)
            IN IF meta.title = <<>>
               THEN [kind |-> "return",
                     result |-> Failed(<<"Could not extract course title from page">>)]
               ELSE IF found = <<>>
               THEN [kind |-> "return",
                     result |-> Failed(<<"Could not find any lessons in the course">>)]
               ELSE [kind |-> "loop", metadata |-> meta, lessons |-> found]

\* an end of scrape_course that formats whatever was scraped
scrape_course_end_unchecked(meta, scraped) ==
    [kind |-> "returned", script |-> format_as_script(meta, scraped), error |-> <<>>]

\* scrape_course after its for loop, lines 96-101
scrape_course_end(meta, scraped) ==
    IF scraped = <<>> THEN Failed(<<"Could not scrape any lesson transcripts">>)
    ELSE [kind |-> "returned", script |-> format_as_script(meta, scraped),
          error |-> <<>>]

\* the route POST /api/admin/courses/scrape, up to the indexing of the
\* script: admin_routes.py lines 60-66
scrape_route(scraped) ==
    IF scraped.error # <<>> /\ scraped.error[1] # <<>>
    THEN [status |-> "error", message |-> scraped.error[1]]
    ELSE [status |-> "add_course_from_text", content |-> scraped.script]

CourseUrls ==
    { Url(<<"courses", "mcp", "lesson", "a1", "intro">>),
      Url(<<"courses", "", "lesson">>),
      Url(<<"about">>) }

Anchors ==
    { [href |-> Rooted(<<"courses", "mcp", "lesson", "a1">>), text |-> "Intro",
       within |-> "nav"],
      [href |-> Url(<<"courses", "mcp", "lesson", "a1">>), text |-> "Intro",
       within |-> "nav"],
      [href |-> Rooted(<<"courses", "mcp", "lesson", "a2">>), text |-> "",
       within |-> "body"],
      [href |-> Relative(<<"a2">>), text |-> "Next", within |-> "lesson-list"],
      [href |-> Rooted(<<"about">>), text |-> "About", within |-> "lesson-list"],
      [href |-> NoUrl, text |-> "", within |-> "lesson-list"] }

RECURSIVE SeqsUpTo(_, _)
SeqsUpTo(S, n) ==
    IF n = 0 THEN {<<>>}
    ELSE LET shorter == SeqsUpTo(S, n - 1)
         IN shorter \cup {Append(q, x) : q \in shorter, x \in S}

TitleTexts ==
    { <<>>,
      << <<"M", "C", "P">> >>,
      << <<"M", "C", "P">>, <<"M", "C", "P", " ", "|", " ", "D", "L", "A", "I">> >>,
      << <<"|", "D", "L", "A", "I">>, <<"M", "C", "P", "s">> >> }

PageFetches ==
    {[kind |-> "raises", exception |-> e] :
        e \in {"Timeout", "ConnectionError", "ValueError"}}
    \cup {[kind |-> "response", status_code |-> c, page |-> pg] :
            c \in {401, 403, 500}, pg \in {[titles |-> <<>>, anchors |-> <<>>]}}
    \cup {[kind |-> "response", status_code |-> 200, page |-> pg] :
            pg \in [titles : TitleTexts, anchors : SeqsUpTo(Anchors, MaxAnchors)]}

LessonFetches ==
    { [kind |-> "raises"],
      [kind |-> "response", status_code |-> 404, selected |-> <<>>, paragraphs |-> <<>>],
      [kind |-> "response", status_code |-> 200,
       selected |-> << <<"Play Video">>, <<"Play Video", "words", "0:42">> >>,
       paragraphs |-> <<>>],
      [kind |-> "response", status_code |-> 200,
       selected |-> << <<"Play Video">> >>, paragraphs |-> <<>>],
      [kind |-> "response", status_code |-> 200, selected |-> <<>>,
       paragraphs |-> << <<"Play Video", "0:42", "Play Video", "0:42",
                          "Play Video", "0:42", "Play Video", "0:42">> >>],
      [kind |-> "response", status_code |-> 200, selected |-> <<>>,
       paragraphs |-> << <<"0:42">>, <<"more words">> >>] }

\* scrape_course(course_url) up to the first lesson page, lines 54-80
ScrapeCourse ==
    /\ scrape_pc = "idle"
    /\ \E url \in CourseUrls, fetch \in PageFetches :
          LET r == scrape_course_begin(url, fetch)
          IN /\ course_url' = url
             /\ IF r.kind = "return"
                THEN /\ scrape_pc' = "returned"
                     /\ scrape_result' = r.result
                     /\ UNCHANGED <<metadata, lessons>>
                ELSE /\ scrape_pc' = "lessons"
                     /\ metadata' = r.metadata
                     /\ lessons' = r.lessons
                     /\ UNCHANGED scrape_result
    /\ UNCHANGED <<lesson_i, scraped_lessons>>
    /\ UNCHANGED <<regvars, loopvars, queryvars>>

\* one iteration of the for loop, lines 81-94, and after the last one the
\* rest of scrape_course, lines 96-101
ScrapeLesson ==
    /\ scrape_pc = "lessons"
    /\ \E fetch \in LessonFetches :
          LET i == lesson_i
              lesson == lessons[i + 1]
              transcript == scrape_lesson_transcript(fetch)
              scraped ==
                  IF transcript # <<>> /\ transcript[1] # <<>>
                  THEN Append(scraped_lessons,
                              [number |-> i, title |-> lesson.title,
                               url |-> lesson.url, transcript |-> transcript[1]])
                  ELSE scraped_lessons
          IN /\ scraped_lessons' = scraped
             /\ lesson_i' = i + 1
             /\ IF i + 1 < Len(lessons)
                THEN UNCHANGED <<scrape_pc, scrape_result>>
                ELSE /\ scrape_pc' = "returned"
                     /\ scrape_result' = scrape_course_end(metadata, scraped)
    /\ UNCHANGED <<course_url, metadata, lessons>>
    /\ UNCHANGED <<regvars, loopvars, queryvars>>

NextScraper ==
    \/ ScrapeCourse
    \/ ScrapeLesson

SpecScraper == Init /\ [][NextScraper]_vars

(***************************************************************************)
(* Properties of the scraper                                               *)
(***************************************************************************)
\* C39 as stated: the lesson list holds each lesson URL at most once,
\* whatever mix of relative and absolute links the page has, and only URLs
\* that contain "/lesson/"
C39_Original ==
    /\ \A i \in 1..Len(lessons), j \in 1..Len(lessons) :
          lessons[i].url = lessons[j].url => i = j
    /\ \A i \in 1..Len(lessons) : HasLesson(lessons[i].url)

\* every URL of the lesson list contains "/lesson/"
OnlyLessonUrls == \A i \in 1..Len(lessons) : HasLesson(lessons[i].url)

\* C40: scrape_course does not raise: it returns a pair, which is either a
\* script that is not empty with no error or an empty script with an error
\* message; with no error at least one transcript was scraped, every lesson
\* page was tried, and each scraped lesson has the number, the URL and the
\* title of its place in the lesson list, in the script as well; the route
\* answers with an error exactly when the pair holds one
C40_ScrapeOutcome ==
    scrape_pc = "returned" =>
        LET r == scrape_result
        IN /\ r.kind = "returned"
           /\ \/ r.script # <<>> /\ r.error = <<>>
              \/ r.script = <<>> /\ r.error # <<>> /\ r.error[1] # <<>>
           /\ r.error = <<>> =>
                 /\ scraped_lessons # <<>>
                 /\ lesson_i = Len(lessons)
                 /\ Len(r.script) = 4 + 4 * Len(scraped_lessons)
                 /\ \A k \in 1..Len(scraped_lessons) :
                       LET l == scraped_lessons[k]
                       IN /\ l.number \in 0..(Len(lessons) - 1)
                          /\ lessons[l.number + 1].url = l.url
                          /\ lessons[l.number + 1].title = l.title
                          /\ l.transcript # <<>>
                          /\ r.script[4 * k + 1] = <<"Lesson ", l.number, ": ", l.title>>
                          /\ \A m \in 1..(k - 1) : scraped_lessons[m].number < l.number
           /\ (scrape_route(r).status = "error") <=> (r.error # <<>>)

C40_Witness ==
    /\ scrape_pc = "returned"
    /\ scrape_result.error = <<>>
    /\ Len(lessons) = 3
    /\ Len(scraped_lessons) = 2
    /\ scraped_lessons[1].number = 0
    /\ scraped_lessons[2].number = 2
    /\ scrape_result.script[9] = <<"Lesson ", 2, ": ", lessons[3].title>>

====
